---- MODULE Spec2Model ----
(***************************************************************************)
(* A model of the particle engine of the TraidarLogo repository:           *)
(*   - AdvancedLogoParticles.tsx : image sampling, the particle field      *)
(*     builder (useMemo "particleData"), the three-phase morph schedule    *)
(*     and the per-frame position update (useFrame callback);              *)
(*   - LogoParticles.tsx         : the basic field builder;                *)
(*   - RisingParticles.tsx       : the ambient rising-particle field.      *)
(*                                                                         *)
(* JavaScript numbers are held in fixed point: the real v is the integer   *)
(* v * FP, products and quotients truncate toward zero.  Math.random() is  *)
(* a stream of draws selected by a seed; Math.sin / Math.cos are a table   *)
(* over sixteenths of the circle; Math.sqrt is the integer square root.    *)
(***************************************************************************)
EXTENDS Integers, Sequences, FiniteSets, TLC

VARIABLES
  cfg,                \* props of AdvancedLogoParticles and the assets behind its URLs
  texture,            \* useLoader(TextureLoader, logoUrl): "pending" | "loaded"
  bullLoads,          \* loadAndProcessBullImage calls in flight
  bullImageData,      \* useState bullImageData: NULL or the sampled bull pixels
  particleData,       \* useMemo particleData: NULL or the field's arrays
  basicData,          \* LogoParticles.tsx useMemo result for the same props
  pointsRef,          \* pointsRef.current is set (the <points> element is mounted)
  crashed,            \* the render threw (the component tree is gone)
  ctl,                \* leva controls and the internal progress state
  weights,            \* sphereAmount / bullAmount / logoAmount of the last render
  mouseWorldPosition, \* mouseWorldPosition.current (x, y)
  time,               \* state.clock.elapsedTime of the last frame
  frameWrote,         \* the last step was a frame callback that wrote positions
  frameNaN,           \* that frame evaluated a division by zero
  amb,                \* RisingParticles: positions, velocities, lifetimes
  loadingScreen,      \* useLoadingScreen: hasHiddenRef, timers, the DOM elements
  jsScan,             \* LogoParticles.jsx: the sampling loop's i and particleIndex
  jsColors            \* AdvancedLogoParticles.jsx: the color array and its frames

vars == <<cfg, texture, bullLoads, bullImageData, particleData, basicData,
          pointsRef, crashed, ctl, weights, mouseWorldPosition, time,
          frameWrote, frameNaN, amb, loadingScreen, jsScan, jsColors>>

\* null / undefined (a record, so that it compares with the records it stands in for)
NULL == [null |-> TRUE]

\* the state of the components that a specification does not run
others == <<loadingScreen, jsScan, jsColors>>

Idle == loadingScreen = NULL /\ jsScan = NULL /\ jsColors = NULL

-----------------------------------------------------------------------------
(* Bounds of the model *)

MaxParticles == 5     \* particleCount ranges over 1..MaxParticles
MaxSeed == 1          \* Math.random() streams 0..MaxSeed
MaxTime == 1          \* clock readings 0..MaxTime (seconds)
MaxAmbFrames == 3     \* frames of the ambient field that are explored
MaxLoads == 2         \* bull image loads in flight at once

-----------------------------------------------------------------------------
(* Numbers *)

FP == 1000
HALF == FP \div 2

\* a / b for a divisor b > 0, truncated toward zero
FDiv(a, b) == IF a >= 0 THEN a \div b ELSE -((-a) \div b)

\* the product of two fixed-point numbers
Mul(a, b) == FDiv(a * b, FP)

RECURSIVE SqrtSearch(_, _, _)
SqrtSearch(n, lo, hi) ==
  IF lo >= hi THEN lo
  ELSE LET mid == (lo + hi + 1) \div 2
       IN IF mid * mid <= n THEN SqrtSearch(n, mid, hi)
                            ELSE SqrtSearch(n, lo, mid - 1)

\* Math.sqrt on an integer: the largest r with r * r <= n
ISqrt(n) == SqrtSearch(n, 0, IF n < 46340 THEN n ELSE 46340)

TwoPi == 6283

SinTable == <<0, 383, 707, 924, 1000, 924, 707, 383,
              0, -383, -707, -924, -1000, -924, -707, -383>>

\* Math.sin / Math.cos of an angle in radians (fixed point)
Sin(a) == FDiv(SinTable[(((a % TwoPi) * 16) \div TwoPi) + 1] * FP, 1000)
Cos(a) == Sin(a + TwoPi \div 4)

RandCycle == <<0, FP - 1, HALF, FP \div 4, (3 * FP) \div 4>>

\* the k-th value Math.random() returns in the run selected by seed: in [0, 1)
Random(seed, k) == RandCycle[((seed + k) % Len(RandCycle)) + 1]

\* Whole numbers and their quotients as IEEE 754 doubles, for the index
\* arithmetic that is done on numbers rather than on coordinates.  A double is
\* [m, e]: m its significand, MantissaBits bits from the most significant (a
\* leading 1), e the binary exponent of the last bit; zero has an empty m.
MantissaBits == 53

DoubleZero == [m |-> <<>>, e |-> 0]

RECURSIVE BitsOf(_)
\* the binary digits of a whole number n >= 0, without leading zeros
BitsOf(n) == IF n = 0 THEN <<>> ELSE Append(BitsOf(n \div 2), n % 2)

RECURSIVE IntOf(_)
\* the whole number a digit sequence stands for
IntOf(bits) ==
  IF bits = <<>> THEN 0
  ELSE 2 * IntOf(SubSeq(bits, 1, Len(bits) - 1)) + bits[Len(bits)]

RECURSIVE Increment(_)
\* the digit sequence plus one, of the same length (all ones wrap to all zeros)
Increment(bits) ==
  IF bits = <<>> THEN <<>>
  ELSE IF bits[Len(bits)] = 0 THEN [bits EXCEPT ![Len(bits)] = 1]
  ELSE Append(Increment(SubSeq(bits, 1, Len(bits) - 1)), 0)

\* round to nearest, ties to even: bits (leading 1) with the exponent e of its
\* last digit, sticky when the exact value has nonzero digits beyond bits
RoundDouble(bits, e, sticky) ==
  LET len == Len(bits)
  IN IF len = 0 THEN DoubleZero
     ELSE IF len <= MantissaBits
     THEN [m |-> bits \o [j \in 1..(MantissaBits - len) |-> 0],
           e |-> e - (MantissaBits - len)]
     ELSE LET kept == SubSeq(bits, 1, MantissaBits)
              guard == bits[MantissaBits + 1]
              rest == sticky \/ \E j \in (MantissaBits + 2)..len : bits[j] = 1
              up == guard = 1 /\ (rest \/ kept[MantissaBits] = 1)
              e2 == e + (len - MantissaBits)
              inc == Increment(kept)
          IN IF ~up THEN [m |-> kept, e |-> e2]
             ELSE IF inc[1] = 1 THEN [m |-> inc, e |-> e2]
             ELSE [m |-> <<1>> \o SubSeq(inc, 1, MantissaBits - 1), e |-> e2 + 1]

RECURSIVE QuotientBits(_, _, _, _)
\* long division: the digits of the quotient so far, the remainder r, the
\* divisor b, the count f of fraction digits made; stops one digit past the
\* significand
QuotientBits(bits, r, b, f) ==
  IF Len(bits) > MantissaBits \/ r = 0 THEN [bits |-> bits, r |-> r, f |-> f]
  ELSE LET d == IF 2 * r >= b THEN 1 ELSE 0
       IN QuotientBits(IF bits = <<>> /\ d = 0 THEN bits ELSE Append(bits, d),
                       2 * r - d * b, b, f + 1)

\* a / b for whole numbers a >= 0, b > 0, as the double the division yields
DoubleQuotient(a, b) ==
  LET q == QuotientBits(BitsOf(a \div b), a % b, b, 0)
  IN RoundDouble(q.bits, -q.f, q.r # 0)

\* the digits of i * m are made ChunkBits digits at a time
ChunkBits == 13

\* the binary digits of n in exactly w digits
Padded(n, w) == LET b == BitsOf(n) IN [j \in 1..(w - Len(b)) |-> 0] \o b

RECURSIVE TimesChunks(_, _, _)
\* the digits of i * m + c, for i < 2^17 and a carry c <= i
TimesChunks(i, m, c) ==
  IF m = <<>> THEN BitsOf(c)
  ELSE LET w == IF Len(m) < ChunkBits THEN Len(m) ELSE ChunkBits
           t == i * IntOf(SubSeq(m, Len(m) - w + 1, Len(m))) + c
       IN TimesChunks(i, SubSeq(m, 1, Len(m) - w), t \div 2^w) \o Padded(t % 2^w, w)

\* i * d for a whole number i >= 0 and a double d, as the double the product yields
DoubleTimes(i, d) ==
  IF i = 0 \/ d.m = <<>> THEN DoubleZero
  ELSE RoundDouble(TimesChunks(i, d.m, 0), d.e, FALSE)

\* Math.floor of a double d >= 0 below 2^31
MathFloor(d) ==
  IF d.m = <<>> \/ MantissaBits + d.e <= 0 THEN 0
  ELSE IntOf(SubSeq(d.m, 1, MantissaBits + d.e))

Put3(arr, n, x, y, z) ==
  [arr EXCEPT ![3 * n + 1] = x, ![3 * n + 2] = y, ![3 * n + 3] = z]

-----------------------------------------------------------------------------
(* Images and pixel sampling *)

PixelRGB(k) == [r |-> (k * 60 + 15) % 256,
                g |-> 255 - k * 40,
                b |-> (k * k * 30) % 256]

\* a decoded w x h raster; pixel k (raster order) has color PixelRGB(k) and alpha alphas[k+1]
Image(w, h, alphas) ==
  [width |-> w, height |-> h,
   data |-> [k \in 1..(w * h) |->
               [r |-> PixelRGB(k - 1).r, g |-> PixelRGB(k - 1).g,
                b |-> PixelRGB(k - 1).b, a |-> alphas[k]]]]

\* ScanVisible that also accepts a pixel whose alpha equals the threshold
RECURSIVE ScanVisible_Inclusive(_, _, _)
ScanVisible_Inclusive(img, alphaThreshold, pixelIndex) ==
  IF pixelIndex >= Len(img.data) THEN <<>>
  ELSE LET d == img.data[pixelIndex + 1]
           rest == ScanVisible_Inclusive(img, alphaThreshold, pixelIndex + 1)
       IN IF d.a >= alphaThreshold
          THEN <<[x |-> pixelIndex % img.width, y |-> pixelIndex \div img.width,
                  r |-> d.r, g |-> d.g, b |-> d.b, a |-> d.a]>> \o rest
          ELSE rest

\* the first pass over the raw buffer from pixel pixelIndex on: the pixels whose
\* alpha exceeds the threshold, in raster order
RECURSIVE ScanVisible(_, _, _)
ScanVisible(img, alphaThreshold, pixelIndex) ==
  IF pixelIndex >= Len(img.data) THEN <<>>
  ELSE LET d == img.data[pixelIndex + 1]
           rest == ScanVisible(img, alphaThreshold, pixelIndex + 1)
       IN IF d.a > alphaThreshold
          THEN <<[x |-> pixelIndex % img.width, y |-> pixelIndex \div img.width,
                  r |-> d.r, g |-> d.g, b |-> d.b, a |-> d.a]>> \o rest
          ELSE rest

Swap(s, i, j) == [s EXCEPT ![i + 1] = s[j + 1], ![j + 1] = s[i + 1]]

RECURSIVE ShuffleFrom(_, _, _, _)
ShuffleFrom(s, i, seed, k) ==
  IF i <= 0 THEN s
  ELSE ShuffleFrom(Swap(s, i, (Random(seed, k) * (i + 1)) \div FP), i - 1, seed, k + 1)

\* the Fisher-Yates pass, drawing from Math.random() starting at draw k
Shuffle(s, seed, k) == ShuffleFrom(s, Len(s) - 1, seed, k)

ShuffleDraws(s) == IF Len(s) > 1 THEN Len(s) - 1 ELSE 0

\* the shuffled visible-pixel list of the logo image
visiblePixels(img, alphaThreshold, seed) ==
  Shuffle(ScanVisible(img, alphaThreshold, 0), seed, 0)

\* loadAndProcessBullImage, after the image has loaded: the value given to setBullImageData
BullSample(img, alphaThreshold, seed) ==
  LET vis == ScanVisible(img, alphaThreshold, 0)
  IN [pixels |-> Shuffle([i \in 1..Len(vis) |-> [x |-> vis[i].x, y |-> vis[i].y]], seed, 0),
      canvasWidth |-> img.width,
      canvasHeight |-> img.height]

-----------------------------------------------------------------------------
(* The particle field builder of AdvancedLogoParticles (useMemo particleData) *)

\* new THREE.Color(color) for the default color prop "#f38439"
fallbackColor == [r |-> FDiv(243 * FP, 255), g |-> FDiv(132 * FP, 255), b |-> FDiv(57 * FP, 255)]

PixelColor(pixel) ==
  [r |-> FDiv(pixel.r * FP, 255), g |-> FDiv(pixel.g * FP, 255), b |-> FDiv(pixel.b * FP, 255)]

\* new Float32Array(n): n zeros
Float32Array(n) == [i \in 1..n |-> 0]

\* AllocArrays with the color array sized for RGBA
AllocArrays_RGBA(particleCount) ==
  [positions |-> Float32Array(particleCount * 3),
   colors |-> Float32Array(particleCount * 4),
   originalPositions |-> Float32Array(particleCount * 3),
   spherePositions |-> Float32Array(particleCount * 3),
   cubePositions |-> Float32Array(particleCount * 3),
   bullPositions |-> Float32Array(particleCount * 3)]

\* the arrays allocated for a field of particleCount particles
AllocArrays(particleCount) ==
  [positions |-> Float32Array(particleCount * 3),
   colors |-> Float32Array(particleCount * 3),
   originalPositions |-> Float32Array(particleCount * 3),
   spherePositions |-> Float32Array(particleCount * 3),
   cubePositions |-> Float32Array(particleCount * 3),
   bullPositions |-> Float32Array(particleCount * 3)]

\* pixel coordinate -> local coordinate: (x / canvas.width - 0.5) * spread
MapX(px, width, spread) == Mul(FDiv(px * FP, width) - HALF, spread)
\* -(y / canvas.height - 0.5) * spread
MapY(py, height, spread) == -Mul(FDiv(py * FP, height) - HALF, spread)

\* One particle is written at acc.particleIndex: logo base and current position,
\* sphere, cube and bull base positions, color; then particleIndex++.
\* e is the builder's environment, (posX, posY) the mapped pixel position, pixel
\* the source pixel.  Reading a pixel of an empty bull list throws (TypeError).
Populate(acc, e, posX, posY, pixel) ==
  LET n == acc.particleIndex
      k == acc.k
      posZ == FDiv((Random(e.seed, k) - HALF) * 2, 100)
      sphereRadius == FDiv(e.spread * 8, 10)
      cosPhi == FP - 2 * Random(e.seed, k + 1)
      sinPhi == ISqrt(FP * FP - cosPhi * cosPhi)
      theta == Mul(Random(e.seed, k + 2), TwoPi)
      cubeSize == FDiv(e.spread * 6, 10)
      nBull == Len(e.bull.pixels)
      bullPixel == e.bull.pixels[(n % nBull) + 1]
      bullX == MapX(bullPixel.x, e.bull.canvasWidth, e.spread)
      bullY == MapY(bullPixel.y, e.bull.canvasHeight, e.spread)
      bullZ == FDiv((Random(e.seed, k + 6) - HALF) * 2, 100)
      col == IF e.forceFallbackColor THEN fallbackColor ELSE PixelColor(pixel)
  IN IF nBull = 0 THEN [acc EXCEPT !.threw = TRUE]
     ELSE [acc EXCEPT
             !.originalPositions = Put3(@, n, posX, posY, posZ),
             !.positions = Put3(@, n, posX, posY, posZ),
             !.spherePositions =
                Put3(@, n, Mul(Mul(sphereRadius, sinPhi), Cos(theta)),
                           Mul(Mul(sphereRadius, sinPhi), Sin(theta)),
                           Mul(sphereRadius, cosPhi)),
             !.cubePositions =
                Put3(@, n, Mul(Random(e.seed, k + 3) - HALF, cubeSize),
                           Mul(Random(e.seed, k + 4) - HALF, cubeSize),
                           Mul(Random(e.seed, k + 5) - HALF, cubeSize)),
             !.bullPositions = Put3(@, n, bullX, bullY, bullZ),
             !.colors = Put3(@, n, col.r, col.g, col.b),
             !.src = Append(@, pixel.y * e.img.width + pixel.x),
             !.particleIndex = n + 1,
             !.k = k + 7]

\* PixelIndex rounded up instead of down
PixelIndex_Ceil(i, step) ==
  LET t == DoubleTimes(i, step)
  IN IF \E j \in 1..Len(t.m) : j > MantissaBits + t.e /\ t.m[j] = 1
     THEN MathFloor(t) + 1 ELSE MathFloor(t)

\* "const pixelIndex = Math.floor(i * step)"
PixelIndex(i, step) == MathFloor(DoubleTimes(i, step))

\* adaptive mode, fewer particles than visible pixels: evenly spaced selection
\* with step = totalPixels / particleCount
RECURSIVE StrideLoop(_, _, _, _)
StrideLoop(acc, e, i, step) ==
  IF i >= e.particleCount \/ acc.threw THEN acc
  ELSE LET totalPixels == Len(e.vis)
           pixelIndex == PixelIndex(i, step)
       IN IF pixelIndex >= totalPixels THEN StrideLoop(acc, e, i + 1, step)
          ELSE LET pixel == e.vis[pixelIndex + 1]
               IN StrideLoop(Populate(acc, e,
                                      MapX(pixel.x, e.img.width, e.spread),
                                      MapY(pixel.y, e.img.height, e.spread),
                                      pixel), e, i + 1, step)

\* adaptive mode, at least as many particles as visible pixels: several per pixel
RECURSIVE MultiLoop(_, _, _, _)
MultiLoop(acc, e, pixelIdx, p) ==
  LET totalPixels == Len(e.vis)
      particlesPerPixel == (e.particleCount + totalPixels - 1) \div totalPixels
  IN IF acc.threw \/ pixelIdx >= totalPixels \/ acc.particleIndex >= e.particleCount
     THEN acc
     ELSE IF p >= particlesPerPixel THEN MultiLoop(acc, e, pixelIdx + 1, 0)
     ELSE LET pixel == e.vis[pixelIdx + 1]
              jitterX == FDiv(Random(e.seed, acc.k) - HALF, 1000)
              jitterY == FDiv(Random(e.seed, acc.k + 1) - HALF, 1000)
              x == FDiv(pixel.x * FP, e.img.width)
              y == FDiv(pixel.y * FP, e.img.height)
          IN MultiLoop(Populate([acc EXCEPT !.k = @ + 2], e,
                                Mul(x + jitterX - HALF, e.spread),
                                -Mul(y + jitterY - HALF, e.spread),
                                pixel), e, pixelIdx, p + 1)

\* uniform mode: a fixed-stride scan of the raw pixel buffer; i is the raw pixel index
RECURSIVE UniformLoop(_, _, _, _)
UniformLoop(acc, e, i, samplingRate) ==
  IF acc.threw \/ i >= Len(e.img.data) \/ acc.particleIndex >= e.particleCount
  THEN acc
  ELSE LET d == e.img.data[i + 1]
           pixel == [x |-> i % e.img.width, y |-> i \div e.img.width,
                     r |-> d.r, g |-> d.g, b |-> d.b, a |-> d.a]
       IN IF d.a > e.alphaThreshold
          THEN UniformLoop(Populate(acc, e,
                                    MapX(pixel.x, e.img.width, e.spread),
                                    MapY(pixel.y, e.img.height, e.spread),
                                    pixel), e, i + samplingRate, samplingRate)
          ELSE UniformLoop(acc, e, i + samplingRate, samplingRate)

\* the fallback pass: round-robin reuse of visible pixels with jitter
RECURSIVE FillLoop(_, _)
FillLoop(acc, e) ==
  IF acc.threw \/ acc.particleIndex >= e.particleCount \/ Len(e.vis) = 0 THEN acc
  ELSE LET pixel == e.vis[(acc.particleIndex % Len(e.vis)) + 1]
           jitterX == FDiv((Random(e.seed, acc.k) - HALF) * 2, 1000)
           jitterY == FDiv((Random(e.seed, acc.k + 1) - HALF) * 2, 1000)
           normalizedX == FDiv(pixel.x * FP + jitterX, e.img.width)
           normalizedY == FDiv(pixel.y * FP + jitterY, e.img.height)
       IN FillLoop(Populate([acc EXCEPT !.k = @ + 2], e,
                            Mul(normalizedX - HALF, e.spread),
                            -Mul(normalizedY - HALF, e.spread),
                            pixel), e)

\* Math.max(1, Math.floor(data.length / 4 / particleCount)); for particleCount 0
\* the quotient is Infinity, a stride past the end of the buffer
SamplingRate(totalPixels, particleCount) ==
  IF particleCount = 0 THEN totalPixels + 1
  ELSE IF totalPixels \div particleCount > 1 THEN totalPixels \div particleCount ELSE 1

\* The body of the particleData useMemo once the bull data and the texture are
\* there: sample, fill, return the arrays.  The result carries particleIndex (the
\* count of populated particles), src (the raster index of each particle's source
\* pixel) and threw (the build raised instead of returning: a TypeError on an
\* empty bull list, a RangeError of new Float32Array on a negative length).
BuildField(p, bull, seed) ==
  LET raw == ScanVisible(p.img, p.alphaThreshold, 0)
      e == [img |-> p.img, vis |-> Shuffle(raw, seed, 0), bull |-> bull,
            particleCount |-> p.particleCount, spread |-> p.spread,
            alphaThreshold |-> p.alphaThreshold,
            forceFallbackColor |-> p.forceFallbackColor, seed |-> seed]
      acc0 == AllocArrays(p.particleCount) @@
              [particleIndex |-> 0, k |-> ShuffleDraws(raw), src |-> <<>>, vis |-> e.vis,
               threw |-> p.particleCount < 0]
      sampled ==
        IF p.densityMode = "adaptive" /\ Len(e.vis) > 0
        THEN IF p.particleCount < Len(e.vis)
             THEN StrideLoop(acc0, e, 0, DoubleQuotient(Len(e.vis), p.particleCount))
             ELSE MultiLoop(acc0, e, 0, 0)
        ELSE UniformLoop(acc0, e, 0, SamplingRate(Len(p.img.data), p.particleCount))
  IN FillLoop(sampled, e)

-----------------------------------------------------------------------------
(* The particle field builder of the basic LogoParticles component *)

\* one particle of LogoParticles: position, base position, color.  In the
\* sampling passes a black pixel takes the fallback color; the fill pass
\* (alwaysImageColor) always takes the pixel's color.
PopulateBasic(acc, e, posX, posY, pixel, alwaysImageColor) ==
  LET n == acc.particleIndex
      posZ == FDiv((Random(e.seed, acc.k) - HALF) * 2, 10)
      col == IF alwaysImageColor \/ pixel.r > 0 \/ pixel.g > 0 \/ pixel.b > 0
             THEN PixelColor(pixel) ELSE fallbackColor
  IN [acc EXCEPT
        !.originalPositions = Put3(@, n, posX, posY, posZ),
        !.positions = Put3(@, n, posX, posY, posZ),
        !.colors = Put3(@, n, col.r, col.g, col.b),
        !.src = Append(@, pixel.y * e.img.width + pixel.x),
        !.particleIndex = n + 1,
        !.k = @ + 1]

\* adaptive mode: every step-th pixel of the raster-ordered visible list
RECURSIVE BasicAdaptiveLoop(_, _, _, _)
BasicAdaptiveLoop(acc, e, i, step) ==
  IF i >= Len(e.vis) \/ acc.particleIndex >= e.particleCount THEN acc
  ELSE LET pixel == e.vis[i + 1]
       IN BasicAdaptiveLoop(PopulateBasic(acc, e,
                                          MapX(pixel.x, e.img.width, e.spread),
                                          MapY(pixel.y, e.img.height, e.spread),
                                          pixel, FALSE), e, i + step, step)

RECURSIVE BasicUniformLoop(_, _, _, _)
BasicUniformLoop(acc, e, i, samplingRate) ==
  IF i >= Len(e.img.data) \/ acc.particleIndex >= e.particleCount THEN acc
  ELSE LET d == e.img.data[i + 1]
           pixel == [x |-> i % e.img.width, y |-> i \div e.img.width,
                     r |-> d.r, g |-> d.g, b |-> d.b, a |-> d.a]
       IN IF d.a > e.alphaThreshold
          THEN BasicUniformLoop(PopulateBasic(acc, e,
                                              MapX(pixel.x, e.img.width, e.spread),
                                              MapY(pixel.y, e.img.height, e.spread),
                                              pixel, FALSE), e, i + samplingRate, samplingRate)
          ELSE BasicUniformLoop(acc, e, i + samplingRate, samplingRate)

\* the fill pass: a random visible pixel, moved by up to one pixel
RECURSIVE BasicFillLoop(_, _)
BasicFillLoop(acc, e) ==
  IF acc.particleIndex >= e.particleCount \/ Len(e.vis) = 0 THEN acc
  ELSE LET randomPixel == e.vis[((Random(e.seed, acc.k) * Len(e.vis)) \div FP) + 1]
           normalizedX == FDiv(randomPixel.x * FP + (Random(e.seed, acc.k + 1) - HALF) * 2,
                               e.img.width)
           normalizedY == FDiv(randomPixel.y * FP + (Random(e.seed, acc.k + 2) - HALF) * 2,
                               e.img.height)
       IN BasicFillLoop(PopulateBasic([acc EXCEPT !.k = @ + 3], e,
                                      Mul(normalizedX - HALF, e.spread),
                                      -Mul(normalizedY - HALF, e.spread),
                                      randomPixel, TRUE), e)

\* Math.max(1, Math.floor(a / b))
StepOf(a, b) == IF a \div b > 1 THEN a \div b ELSE 1

\* "if (!ctx || !textureImage)" negated: the 2d context and the texture's image exist
LogoReady(p) == p.contextAvailable /\ p.img # NULL

\* the body of the useMemo of LogoParticles
BuildBasic(p, seed) ==
  LET e == [img |-> p.img, vis |-> ScanVisible(p.img, p.alphaThreshold, 0),
            particleCount |-> p.particleCount, spread |-> p.spread,
            alphaThreshold |-> p.alphaThreshold, seed |-> seed]
      acc0 == [positions |-> Float32Array(p.particleCount * 3),
               colors |-> Float32Array(p.particleCount * 3),
               originalPositions |-> Float32Array(p.particleCount * 3),
               particleIndex |-> 0, k |-> 0, src |-> <<>>]
      sampled ==
        IF p.densityMode = "adaptive" /\ Len(e.vis) > 0
        THEN BasicAdaptiveLoop(acc0, e, 0, StepOf(Len(e.vis), p.particleCount))
        ELSE BasicUniformLoop(acc0, e, 0, StepOf(Len(p.img.data), p.particleCount))
      b == BasicFillLoop(sampled, e)
  IN IF ~LogoReady(p)
     THEN [positions |-> <<>>, colors |-> <<>>, originalPositions |-> <<>>,
           particleIndex |-> 0, src |-> <<>>]
     ELSE [positions |-> b.positions, colors |-> b.colors,
           originalPositions |-> b.originalPositions,
           particleIndex |-> b.particleIndex, src |-> b.src]

-----------------------------------------------------------------------------
(* The morph schedule *)

P04 == (4 * FP) \div 10
P06 == (6 * FP) \div 10

\* sequenceProgress with || in place of ??: an external progress of 0 counts as absent
sequenceProgress_Falsy(morphSequenceProgress, morphPresets, internalSphereProgress) ==
  IF morphSequenceProgress # NULL /\ morphSequenceProgress.value # 0
  THEN morphSequenceProgress.value
  ELSE IF morphPresets = "logo" THEN FP
  ELSE IF morphPresets = "bull" THEN HALF
  ELSE IF morphPresets = "sphere" THEN 0
  ELSE internalSphereProgress

\* morphSequenceProgress ?? (preset === "logo" ? 1 : "bull" ? 0.5 : "sphere" ? 0 : internal)
sequenceProgress(morphSequenceProgress, morphPresets, internalSphereProgress) ==
  IF morphSequenceProgress # NULL THEN morphSequenceProgress.value
  ELSE IF morphPresets = "logo" THEN FP
  ELSE IF morphPresets = "bull" THEN HALF
  ELSE IF morphPresets = "sphere" THEN 0
  ELSE internalSphereProgress

\* MorphAmounts with the logo fading in from 0.4 while the bull fades out from 0.6
MorphAmounts_EarlyLogo(p) ==
  IF p < P04
  THEN [sphereAmount |-> FP - FDiv(p * FP, P04),
        bullAmount |-> FDiv(p * FP, P04),
        logoAmount |-> 0]
  ELSE IF p <= P06
  THEN [sphereAmount |-> 0, bullAmount |-> FP, logoAmount |-> 0]
  ELSE [sphereAmount |-> 0,
        bullAmount |-> FP - FDiv((p - P06) * FP, P04),
        logoAmount |-> FDiv((p - P04) * FP, P06)]

\* MorphAmounts with no plateau: sphere to bull over [0, 0.5), bull to logo after
MorphAmounts_NoPlateau(p) ==
  IF p < HALF
  THEN [sphereAmount |-> FP - FDiv(p * FP, HALF),
        bullAmount |-> FDiv(p * FP, HALF),
        logoAmount |-> 0]
  ELSE [sphereAmount |-> 0,
        bullAmount |-> FP - FDiv((p - HALF) * FP, HALF),
        logoAmount |-> FDiv((p - HALF) * FP, HALF)]

\* sequence progress -> (sphereAmount, bullAmount, logoAmount)
MorphAmounts(p) ==
  IF p < P04
  THEN [sphereAmount |-> FP - FDiv(p * FP, P04),
        bullAmount |-> FDiv(p * FP, P04),
        logoAmount |-> 0]
  ELSE IF p <= P06
  THEN [sphereAmount |-> 0, bullAmount |-> FP, logoAmount |-> 0]
  ELSE [sphereAmount |-> 0,
        bullAmount |-> FP - FDiv((p - P06) * FP, P04),
        logoAmount |-> FDiv((p - P06) * FP, P04)]

\* the amounts a render computes from the props and the control state
RenderAmounts(c, k) ==
  MorphAmounts(sequenceProgress(c.morphSequenceProgress, k.morphPresets,
                                k.internalSphereProgress))

-----------------------------------------------------------------------------
(* The per-frame position update of AdvancedLogoParticles *)

Vec(arr, n) == [x |-> arr[3 * n + 1], y |-> arr[3 * n + 2], z |-> arr[3 * n + 3]]

\* MorphTarget that blends whether or not morphing is enabled
MorphTarget_AlwaysBlend(enableMorphing, w, sphere, bull, original) ==
  [x |-> Mul(w.sphereAmount, sphere.x) + Mul(w.bullAmount, bull.x)
          + Mul(w.logoAmount, original.x),
   y |-> Mul(w.sphereAmount, sphere.y) + Mul(w.bullAmount, bull.y)
          + Mul(w.logoAmount, original.y),
   z |-> Mul(w.sphereAmount, sphere.z) + Mul(w.bullAmount, bull.z)
          + Mul(w.logoAmount, original.z)]

\* the weighted blend of the three shapes, or the logo position without morphing
MorphTarget(enableMorphing, w, sphere, bull, original) ==
  IF enableMorphing
  THEN [x |-> Mul(w.sphereAmount, sphere.x) + Mul(w.bullAmount, bull.x)
                + Mul(w.logoAmount, original.x),
        y |-> Mul(w.sphereAmount, sphere.y) + Mul(w.bullAmount, bull.y)
                + Mul(w.logoAmount, original.y),
        z |-> Mul(w.sphereAmount, sphere.z) + Mul(w.bullAmount, bull.z)
                + Mul(w.logoAmount, original.z)]
  ELSE original

\* Explode that scales the target by 1 + explosionForce, whatever its distance
Explode_Scale(t, explosionForce) ==
  IF explosionForce > 0
  THEN [x |-> t.x + Mul(t.x, explosionForce),
        y |-> t.y + Mul(t.y, explosionForce),
        z |-> t.z + Mul(t.z, explosionForce)]
  ELSE t

\* the explosion force pushes the target along its own direction
Explode(t, explosionForce) ==
  IF explosionForce > 0
  THEN LET distance == ISqrt(t.x * t.x + t.y * t.y + t.z * t.z)
           normalizedX == IF distance > 0 THEN FDiv(t.x * FP, distance) ELSE 0
           normalizedY == IF distance > 0 THEN FDiv(t.y * FP, distance) ELSE 0
           normalizedZ == IF distance > 0 THEN FDiv(t.z * FP, distance) ELSE 0
       IN [x |-> t.x + Mul(normalizedX, explosionForce),
           y |-> t.y + Mul(normalizedY, explosionForce),
           z |-> t.z + Mul(normalizedZ, explosionForce)]
  ELSE t

\* Wave with a depth component that ignores the amplitude
Wave_FixedDepth(t, animationSpeed, particleIndex, waveAmplitude) ==
  [x |-> Mul(Sin(Mul(t, animationSpeed) + particleIndex * (FP \div 10)), waveAmplitude),
   y |-> Mul(Cos(Mul(t, animationSpeed) + particleIndex * (FP \div 10)), waveAmplitude),
   z |-> Mul(Sin(Mul(Mul(t, animationSpeed), HALF) + particleIndex * (FP \div 5)), HALF)]

Wave(t, animationSpeed, particleIndex, waveAmplitude) ==
  [x |-> Mul(Sin(Mul(t, animationSpeed) + particleIndex * (FP \div 10)), waveAmplitude),
   y |-> Mul(Cos(Mul(t, animationSpeed) + particleIndex * (FP \div 10)), waveAmplitude),
   z |-> Mul(Mul(Sin(Mul(Mul(t, animationSpeed), HALF) + particleIndex * (FP \div 5)),
                 waveAmplitude), HALF)]

\* ForceGuard without the zero-distance test
ForceGuard_NoZeroTest(distance, mouseRadius) == distance < mouseRadius

\* "if (distance < mouseRadius && distance > 0)"
ForceGuard(distance, mouseRadius) == distance < mouseRadius /\ distance > 0

\* The repulsion on a particle at delta from the pointer.  nan records a division
\* by zero (the quotient is then NaN in the program; 0 stands for it here).
MouseForce(deltaX, deltaY, mouseInteraction, mouseRadius) ==
  LET distance == ISqrt(deltaX * deltaX + deltaY * deltaY)
      zero == [x |-> 0, y |-> 0, nan |-> FALSE]
  IN IF mouseInteraction > 0
     THEN IF ForceGuard(distance, mouseRadius)
          THEN IF distance = 0 \/ mouseRadius = 0
               THEN [x |-> 0, y |-> 0, nan |-> TRUE]
               ELSE LET normalizedX == FDiv(deltaX * FP, distance)
                        normalizedY == FDiv(deltaY * FP, distance)
                        falloff == FP - FDiv(distance * FP, mouseRadius)
                        force == Mul(Mul(mouseInteraction, falloff), falloff)
                    IN [x |-> Mul(normalizedX, force),
                        y |-> Mul(normalizedY, force),
                        nan |-> FALSE]
          ELSE zero
     ELSE zero

\* FinalPosition displacing the array's current value instead of the target
FinalPosition_FromPrev(prev, target, wave, force) == prev + wave + force

\* "positionsArray[i] = targetX + waveX + mouseForceX": prev is the value the
\* array holds before the write
FinalPosition(prev, target, wave, force) == target + wave + force

\* the state of one particle after the frame callback's loop body
FrameParticle(pd, n, c, k, w, t, mouse) ==
  LET target == Explode(MorphTarget(c.enableMorphing, w,
                                    Vec(pd.spherePositions, n),
                                    Vec(pd.bullPositions, n),
                                    Vec(pd.originalPositions, n)),
                        k.explosionForce)
      wave == Wave(t, c.animationSpeed, n, k.waveAmplitude)
      force == MouseForce(target.x + wave.x - mouse.x, target.y + wave.y - mouse.y,
                          k.mouseInteraction, k.mouseRadius)
      prev == Vec(pd.positions, n)
  IN [x |-> FinalPosition(prev.x, target.x, wave.x, force.x),
      y |-> FinalPosition(prev.y, target.y, wave.y, force.y),
      z |-> FinalPosition(prev.z, target.z, wave.z, 0),
      nan |-> force.nan]

\* the loop over all particles: the state of every particle after the callback
FrameLoop(pd, c, k, w, t, mouse) ==
  [n \in 0..((Len(pd.positions) \div 3) - 1) |-> FrameParticle(pd, n, c, k, w, t, mouse)]

\* the positions array holding the loop's results
PositionsOf(loop, length) ==
  [i \in 1..length |->
     LET q == loop[(i - 1) \div 3]
     IN IF (i - 1) % 3 = 0 THEN q.x ELSE IF (i - 1) % 3 = 1 THEN q.y ELSE q.z]

\* FrameWrite that stores the results in the logo base array as well
FrameWrite_Rebase(pd, positions) ==
  [pd EXCEPT !.positions = positions, !.originalPositions = positions]

\* the writes of the frame callback: positionsArray[i], [i + 1], [i + 2] of every
\* particle, into the array of the position attribute and nowhere else
FrameWrite(pd, positions) == [pd EXCEPT !.positions = positions]

\* FrameGuard that lets every frame through
FrameGuard_Open(ref, positionsLength) == TRUE

\* "if (!pointsRef.current || positions.length === 0) return"
FrameGuard(ref, positionsLength) == ref /\ positionsLength # 0

-----------------------------------------------------------------------------
(* The component AdvancedLogoParticles as a state machine *)

\* the initial values of the leva controls and of internalSphereProgress
DefaultControls ==
  [explosionForce |-> 0, waveAmplitude |-> FDiv(2 * FP, 100),
   mouseInteraction |-> 2 * FP, mouseRadius |-> FP,
   morphPresets |-> "Logo", internalSphereProgress |-> 0]

\* the state when the component is first rendered: useLoader has suspended it
Boot ==
  /\ texture = "pending"
  /\ bullLoads = {}
  /\ bullImageData = NULL
  /\ particleData = NULL
  /\ basicData = NULL
  /\ pointsRef = FALSE
  /\ crashed = FALSE
  /\ ctl = DefaultControls
  /\ weights = NULL
  /\ mouseWorldPosition = [x |-> 0, y |-> 0]
  /\ time = 0
  /\ frameWrote = FALSE
  /\ frameNaN = FALSE

\* the fields of a build result that particleData returns (and, kept for the
\* properties, the two counters and the shuffled visible-pixel list)
FieldOf(b) ==
  [positions |-> b.positions, colors |-> b.colors,
   originalPositions |-> b.originalPositions,
   spherePositions |-> b.spherePositions,
   cubePositions |-> b.cubePositions,
   bullPositions |-> b.bullPositions,
   particleIndex |-> b.particleIndex, src |-> b.src, vis |-> b.vis]

\* A render and its commit with props c and bull data bd: particleData is null
\* while bd is null or the logo cannot be drawn, else the built field; the
\* <points> element exists iff positions is not empty; a build that throws takes
\* the component down.
RenderWith(c, bd, seed) ==
  LET b == BuildField(c, bd, seed)
  IN IF bd = NULL \/ ~LogoReady(c)
     THEN /\ particleData' = NULL
          /\ pointsRef' = FALSE
          /\ crashed' = FALSE
     ELSE IF b.threw
     THEN /\ particleData' = NULL
          /\ pointsRef' = FALSE
          /\ crashed' = TRUE
     ELSE /\ particleData' = FieldOf(b)
          /\ pointsRef' = (Len(b.positions) # 0)
          /\ crashed' = FALSE

\* a render with the current props
Render(bd, seed) == RenderWith(cfg, bd, seed)

\* The logo texture arrives: the component renders for the first time (no bull
\* data yet), mounts, and its effect starts loadAndProcessBullImage.  The basic
\* LogoParticles component, when shown, builds its field from the same texture.
TextureLoaded ==
  \E seed \in (IF cfg.showBasicParticles THEN 0..MaxSeed ELSE {0}) :
    /\ texture = "pending" /\ ~crashed
    /\ texture' = "loaded"
    /\ Render(bullImageData, 0)
    /\ weights' = RenderAmounts(cfg, ctl)
    /\ bullLoads' = bullLoads \cup {[alphaThreshold |-> cfg.alphaThreshold, n |-> 0]}
    /\ basicData' = IF cfg.showBasicParticles THEN BuildBasic(cfg, seed) ELSE NULL
    /\ frameWrote' = FALSE
    /\ UNCHANGED <<cfg, bullImageData, ctl, mouseWorldPosition, time, frameNaN, amb, others>>

\* The bull image loads and is sampled: setBullImageData(...) and the re-render
\* that builds the field.
BullLoadDone ==
  \E l \in bullLoads, seed \in 0..MaxSeed :
    /\ ~crashed
    /\ cfg.contextAvailable
    /\ bullLoads' = bullLoads \ {l}
    /\ bullImageData' = BullSample(cfg.bullImg, l.alphaThreshold, seed)
    /\ Render(bullImageData', seed)
    /\ weights' = RenderAmounts(cfg, ctl)
    /\ frameWrote' = FALSE
    /\ UNCHANGED <<cfg, texture, basicData, ctl, mouseWorldPosition, time, frameNaN, amb, others>>

\* BullLoadFail without the try / catch: the rejection takes the component down
BullLoadFail_Uncaught ==
  \E l \in bullLoads :
    /\ ~crashed
    /\ bullLoads' = bullLoads \ {l}
    /\ crashed' = TRUE
    /\ frameWrote' = FALSE
    /\ UNCHANGED <<cfg, texture, bullImageData, particleData, basicData, pointsRef,
                   ctl, weights, mouseWorldPosition, time, frameNaN, amb, others>>

\* The bull image fails to load, or its canvas has no 2d context: the catch block
\* calls setBullImageData(null).
BullLoadFail ==
  \E l \in bullLoads :
    /\ ~crashed
    /\ bullLoads' = bullLoads \ {l}
    /\ bullImageData' = NULL
    /\ Render(NULL, 0)
    /\ weights' = RenderAmounts(cfg, ctl)
    /\ frameWrote' = FALSE
    /\ UNCHANGED <<cfg, texture, basicData, ctl, mouseWorldPosition, time, frameNaN, amb, others>>

\* a control changes: the component re-renders; the memoized field is kept
Rerender(newCtl) ==
  /\ texture = "loaded" /\ ~crashed
  /\ newCtl # ctl
  /\ ctl' = newCtl
  /\ weights' = RenderAmounts(cfg, newCtl)
  /\ frameWrote' = FALSE
  /\ UNCHANGED <<cfg, texture, bullLoads, bullImageData, particleData, basicData,
                 pointsRef, crashed, mouseWorldPosition, time, frameNaN, amb, others>>

\* The parent passes a new alphaThreshold or debug: the component re-renders, the
\* field is rebuilt from the bull data it has (both props are dependencies of the
\* useMemo), and the effect starts loadAndProcessBullImage again.
PropsChanged ==
  \E a \in cfg.thresholds, d \in BOOLEAN, seed \in 0..MaxSeed :
    LET c == [cfg EXCEPT !.alphaThreshold = a, !.debug = d]
        n == CHOOSE m \in 0..MaxLoads :
               /\ m \notin {l.n : l \in bullLoads}
               /\ \A k \in 0..(m - 1) : k \in {l.n : l \in bullLoads}
    IN /\ texture = "loaded" /\ ~crashed
       /\ c # cfg
       /\ Cardinality(bullLoads) < MaxLoads
       /\ cfg' = c
       /\ RenderWith(c, bullImageData, seed)
       /\ weights' = RenderAmounts(c, ctl)
       /\ bullLoads' = bullLoads \cup {[alphaThreshold |-> a, n |-> n]}
       /\ frameWrote' = FALSE
       /\ UNCHANGED <<texture, bullImageData, basicData, ctl, mouseWorldPosition,
                      time, frameNaN, amb, others>>

\* the "Sequence Progress" slider: onChange = setInternalSphereProgress
SetSequenceProgress ==
  \E v \in cfg.progressGrid :
    /\ cfg.enableMorphing
    /\ Rerender([ctl EXCEPT !.internalSphereProgress = v])

\* SetPreset whose onChange leaves the slider state as it is
SetPreset_KeepSlider ==
  \E preset \in {"sphere", "bull", "logo", "reset"} :
    /\ cfg.enableMorphing
    /\ Rerender([ctl EXCEPT !.morphPresets = preset])

\* the "Morph Sequence" select: the value changes and onChange sets the progress
SetPreset ==
  \E preset \in {"sphere", "bull", "logo", "reset"} :
    /\ cfg.enableMorphing
    /\ Rerender([ctl EXCEPT !.morphPresets = preset,
                            !.internalSphereProgress =
                               IF preset = "bull" THEN HALF
                               ELSE IF preset = "logo" THEN FP ELSE 0])

SetExplosionForce ==
  \E v \in {0, FP} : Rerender([ctl EXCEPT !.explosionForce = v])

SetWaveAmplitude ==
  \E v \in {0, FDiv(2 * FP, 100)} : Rerender([ctl EXCEPT !.waveAmplitude = v])

SetMouseInteraction ==
  \E v \in {0, 2 * FP} : Rerender([ctl EXCEPT !.mouseInteraction = v])

\* The frame callback at clock reading t; hit is where the pointer ray meets the
\* plane z = 0, or NULL when it does not.
Frame ==
  \E t \in cfg.times, hit \in cfg.hits \cup {NULL} :
    LET positions == IF particleData = NULL THEN <<>> ELSE particleData.positions
        run == FrameGuard(pointsRef, Len(positions))
        mouse == IF hit # NULL THEN hit ELSE mouseWorldPosition
        loop == FrameLoop(particleData, cfg, ctl, weights, t, mouse)
    IN /\ texture = "loaded" /\ ~crashed
       /\ time' = t
       /\ frameWrote' = run
       /\ IF run /\ particleData # NULL
          THEN /\ mouseWorldPosition' = mouse
               /\ particleData' =
                    FrameWrite(particleData, PositionsOf(loop, Len(positions)))
               /\ frameNaN' = (\E n \in DOMAIN loop : loop[n].nan)
          ELSE UNCHANGED <<mouseWorldPosition, particleData, frameNaN>>
       /\ UNCHANGED <<cfg, texture, bullLoads, bullImageData, basicData, pointsRef,
                      crashed, ctl, weights, amb, others>>

-----------------------------------------------------------------------------
(* Inputs *)

\* 2 x 2 logo images: every pattern of transparent and opaque pixels, and
\* patterns with pixels whose alpha is exactly the default threshold
Images2x2 ==
  {Image(2, 2, a) : a \in [1..4 -> {0, 255}]}
    \cup {Image(2, 2, <<50, 255, 0, 50>>), Image(2, 2, <<50, 50, 50, 50>>),
          Image(2, 2, <<50, 255, 255, 255>>)}

Opaque2x2 == Image(2, 2, <<255, 255, 255, 255>>)

\* a decoded w x h raster of opaque pixels of differing colors
Raster(w, h) ==
  [width |-> w, height |-> h,
   data |-> [k \in 1..(w * h) |->
               [r |-> (k * 60 + 15) % 256, g |-> (k * 40) % 256,
                b |-> (k * k * 30) % 256, a |-> 255]]]

BullImages == {Opaque2x2, Image(3, 1, <<255, 0, 255>>), Image(1, 1, <<0>>)}

SecondsUpTo(n) == {s * FP : s \in 0..n}

\* the builder under every image, count, mode and threshold; one frame input
BuildConfigs ==
  [img : Images2x2, bullImg : BullImages,
   particleCount : 1..MaxParticles,
   densityMode : {"adaptive", "uniform"},
   alphaThreshold : {0, 50},
   forceFallbackColor : BOOLEAN,
   enableMorphing : {TRUE},
   morphSequenceProgress : {NULL},
   spread : {4 * FP},
   animationSpeed : {HALF},
   showBasicParticles : {TRUE},
   contextAvailable : {TRUE}, debug : {FALSE}, thresholds : {{}},
   progressGrid : {{}},
   times : {{0}},
   hits : {{}}]

InitBuild == cfg \in BuildConfigs /\ Boot /\ amb = NULL /\ Idle

NextBuild == TextureLoaded \/ BullLoadDone \/ BullLoadFail \/ Frame

SpecBuild == InitBuild /\ [][NextBuild]_vars

\* the adaptive builder on images of 6 and 30 visible pixels, with fewer and
\* with more particles than pixels
AdaptiveConfigs ==
  [img : {Raster(3, 2), Raster(6, 5)}, bullImg : {Opaque2x2, Image(3, 1, <<255, 0, 255>>)},
   particleCount : {4, 11, 22, 26},
   densityMode : {"adaptive"},
   alphaThreshold : {0, 50},
   forceFallbackColor : BOOLEAN,
   enableMorphing : {TRUE},
   morphSequenceProgress : {NULL},
   spread : {4 * FP},
   animationSpeed : {HALF},
   showBasicParticles : {FALSE},
   contextAvailable : {TRUE}, debug : {FALSE}, thresholds : {{}},
   progressGrid : {{}},
   times : {{0}},
   hits : {{}}]

InitAdaptive == cfg \in AdaptiveConfigs /\ Boot /\ amb = NULL /\ Idle

NextAdaptive == TextureLoaded \/ BullLoadDone \/ BullLoadFail \/ Frame

SpecAdaptive == InitAdaptive /\ [][NextAdaptive]_vars

\* the slider's values: 0 to 1 in steps of 0.01
SliderGrid == {i * FDiv(FP, 100) : i \in 0..100}

\* the schedule under every slider value, preset and external progress
SchedConfigs ==
  [img : {Opaque2x2}, bullImg : {Opaque2x2},
   particleCount : {1},
   densityMode : {"adaptive"},
   alphaThreshold : {50},
   forceFallbackColor : {FALSE},
   enableMorphing : {TRUE},
   morphSequenceProgress : {NULL, [value |-> (3 * FP) \div 10]},
   spread : {4 * FP},
   animationSpeed : {HALF},
   showBasicParticles : {FALSE},
   contextAvailable : {TRUE}, debug : {FALSE}, thresholds : {{}},
   progressGrid : {SliderGrid},
   times : {{}},
   hits : {{}}]

InitSched == cfg \in SchedConfigs /\ Boot /\ amb = NULL /\ Idle

NextSched ==
  TextureLoaded \/ BullLoadDone \/ BullLoadFail \/ SetSequenceProgress \/ SetPreset

SpecSched == InitSched /\ [][NextSched]_vars

\* the sequence progress under an external progress that is absent, 0, 0.3 or 1,
\* every preset and a coarse slider
ProgressConfigs ==
  [img : {Opaque2x2}, bullImg : {Opaque2x2},
   particleCount : {1},
   densityMode : {"adaptive"},
   alphaThreshold : {50},
   forceFallbackColor : {FALSE},
   enableMorphing : {TRUE},
   morphSequenceProgress : {NULL} \cup {[value |-> v] : v \in {0, (3 * FP) \div 10, FP}},
   spread : {4 * FP},
   animationSpeed : {HALF},
   showBasicParticles : {FALSE},
   contextAvailable : {TRUE}, debug : {FALSE}, thresholds : {{}},
   progressGrid : {{0, FP \div 5, HALF, (4 * FP) \div 5, FP}},
   times : {{}},
   hits : {{}}]

InitProgress == cfg \in ProgressConfigs /\ Boot /\ amb = NULL /\ Idle

NextProgress ==
  TextureLoaded \/ BullLoadDone \/ BullLoadFail \/ SetSequenceProgress \/ SetPreset

SpecProgress == InitProgress /\ [][NextProgress]_vars

\* pointer positions on the plane z = 0: on the particle at the origin, and half
\* a radius away from the particle at (-spread/2, 0)
PointerHits == {[x |-> 0, y |-> 0], [x |-> -(8 * FP) \div 5, y |-> (3 * FP) \div 10]}

\* the frame update under every control setting, clock reading and pointer
FrameConfigs ==
  [img : {Opaque2x2}, bullImg : {Image(3, 1, <<255, 0, 255>>)},
   particleCount : {4},
   densityMode : {"adaptive"},
   alphaThreshold : {50},
   forceFallbackColor : {FALSE},
   enableMorphing : BOOLEAN,
   morphSequenceProgress : {NULL},
   spread : {4 * FP},
   animationSpeed : {HALF},
   showBasicParticles : {FALSE},
   contextAvailable : {TRUE}, debug : {FALSE}, thresholds : {{}},
   progressGrid : {{0, FP \div 5, FP}},
   times : {SecondsUpTo(MaxTime)},
   hits : {PointerHits}]

InitFrame == cfg \in FrameConfigs /\ Boot /\ amb = NULL /\ Idle

NextFrame ==
  \/ TextureLoaded \/ BullLoadDone \/ BullLoadFail
  \/ SetSequenceProgress \/ SetExplosionForce \/ SetWaveAmplitude \/ SetMouseInteraction
  \/ Frame

SpecFrame == InitFrame /\ [][NextFrame]_vars

\* setup under a missing 2d context, a missing texture image, failing bull loads
\* and changing alphaThreshold / debug props
SetupConfigs ==
  [img : {Opaque2x2, NULL}, bullImg : {Image(3, 1, <<255, 0, 255>>)},
   particleCount : {2},
   densityMode : {"adaptive", "uniform"},
   alphaThreshold : {50},
   forceFallbackColor : {FALSE},
   enableMorphing : {TRUE},
   morphSequenceProgress : {NULL},
   spread : {4 * FP},
   animationSpeed : {HALF},
   showBasicParticles : {TRUE},
   contextAvailable : BOOLEAN, debug : {FALSE}, thresholds : {{0, 50}},
   progressGrid : {{}},
   times : {SecondsUpTo(MaxTime)},
   hits : {{[x |-> 0, y |-> 0]}}]

\* props the spec calls invalid next to valid ones: particleCount and spread
\* negative, zero and positive
EdgeConfigs ==
  [img : {Opaque2x2}, bullImg : {Image(3, 1, <<255, 0, 255>>)},
   particleCount : {-1, 0, 2},
   densityMode : {"adaptive", "uniform"},
   alphaThreshold : {50},
   forceFallbackColor : {FALSE},
   enableMorphing : BOOLEAN,
   morphSequenceProgress : {NULL},
   spread : {-(4 * FP), 0, 4 * FP},
   animationSpeed : {HALF},
   showBasicParticles : {FALSE},
   contextAvailable : {TRUE}, debug : {FALSE}, thresholds : {{}},
   progressGrid : {{}},
   times : {SecondsUpTo(MaxTime)},
   hits : {{[x |-> 0, y |-> 0]}}]

InitEdge == cfg \in EdgeConfigs /\ Boot /\ amb = NULL /\ Idle

NextEdge == TextureLoaded \/ BullLoadDone \/ BullLoadFail \/ Frame

SpecEdge == InitEdge /\ [][NextEdge]_vars

\* morphing disabled, under every external sequence progress and control
\* setting; the second logo has its one visible pixel at the centre of the plane
StillConfigs ==
  [img : {Opaque2x2, Image(2, 2, <<0, 0, 0, 255>>)}, bullImg : {Image(3, 1, <<255, 0, 255>>)},
   particleCount : {2},
   densityMode : {"adaptive"},
   alphaThreshold : {50},
   forceFallbackColor : {FALSE},
   enableMorphing : {FALSE},
   morphSequenceProgress : {NULL} \cup {[value |-> v] : v \in {FP \div 5, HALF, FP}},
   spread : {4 * FP},
   animationSpeed : {HALF},
   showBasicParticles : {FALSE},
   contextAvailable : {TRUE}, debug : {FALSE}, thresholds : {{}},
   progressGrid : {{}},
   times : {SecondsUpTo(MaxTime)},
   hits : {{[x |-> 0, y |-> 0]}}]

InitStill == cfg \in StillConfigs /\ Boot /\ amb = NULL /\ Idle

NextStill ==
  \/ TextureLoaded \/ BullLoadDone \/ BullLoadFail
  \/ SetExplosionForce \/ SetWaveAmplitude \/ SetMouseInteraction
  \/ Frame

SpecStill == InitStill /\ [][NextStill]_vars

\* overlapping bull loads: alphaThreshold and debug change while loads are in
\* flight; the middle bull pixel is visible at threshold 0 and not at 50
ReloadConfigs ==
  [img : {Opaque2x2}, bullImg : {Image(3, 1, <<255, 50, 255>>)},
   particleCount : {2},
   densityMode : {"adaptive"},
   alphaThreshold : {0, 50},
   forceFallbackColor : {FALSE},
   enableMorphing : {TRUE},
   morphSequenceProgress : {NULL},
   spread : {4 * FP},
   animationSpeed : {HALF},
   showBasicParticles : {FALSE},
   contextAvailable : {TRUE}, debug : {FALSE}, thresholds : {{0, 50}},
   progressGrid : {{}},
   times : {{}},
   hits : {{}}]

InitReload == cfg \in ReloadConfigs /\ Boot /\ amb = NULL /\ Idle

NextReload == TextureLoaded \/ BullLoadDone \/ BullLoadFail \/ PropsChanged

SpecReload == InitReload /\ [][NextReload]_vars

InitSetup == cfg \in SetupConfigs /\ Boot /\ amb = NULL /\ Idle

NextSetup ==
  TextureLoaded \/ BullLoadDone \/ BullLoadFail \/ PropsChanged \/ Frame

SpecSetup == InitSetup /\ [][NextSetup]_vars

-----------------------------------------------------------------------------
(* The ambient field: RisingParticles *)

RECURSIVE Pow(_, _)
\* Math.pow(u, n) for a whole exponent n
Pow(u, n) == IF n = 0 THEN FP ELSE Mul(u, Pow(u, n - 1))

\* VelocityAt with the base velocity centred on zero: (random - 0.5) * speed
VelocityAt_Centred(y, rand, c) ==
  LET baseVelocity == Mul(rand, c.speed) - Mul(c.speed, HALF)
      heightFactor == FDiv((y + 5 * FP) * FP, c.height)
  IN Mul(baseVelocity, (3 * FP) \div 10 + Mul(heightFactor, c.velocityGradient))

\* baseVelocity * (0.3 + heightFactor * velocityGradient), heightFactor = (y + 5) / height
VelocityAt(y, rand, c) ==
  LET baseVelocity == Mul(rand, c.speed) + Mul(c.speed, HALF)
      heightFactor == FDiv((y + 5 * FP) * FP, c.height)
  IN Mul(baseVelocity, (3 * FP) \div 10 + Mul(heightFactor, c.velocityGradient))

\* the start height of a new particle: bottomBias * height - 5
StartY(bottomBias, height) == Mul(bottomBias, height) - 5 * FP

\* RecycleY with the band taken as 3 times the height instead of 0.3 times
RecycleY_WideBand(bottomBias, height) == Mul(bottomBias, height * 3) - 5 * FP

\* the height a recycled particle restarts from: bottomBias * (height * 0.3) - 5
RecycleY(bottomBias, height) == Mul(bottomBias, FDiv(height * 3, 10)) - 5 * FP

\* "if (positions[i3 + 1] > height)"
TooHigh(y, height) == y > height

\* the useMemo of RisingParticles: particle i is made from draws 6i .. 6i+5
AmbientParticle(c, seed, i) ==
  LET k == 6 * i
      y == StartY(Pow(Random(seed, k + 1), c.bottomDensity), c.height)
  IN [x |-> Mul(Random(seed, k) - HALF, c.area),
      y |-> y,
      z |-> Mul(Random(seed, k + 2) - HALF, c.area),
      velocity |-> VelocityAt(y, Random(seed, k + 3), c),
      lifetime |-> Random(seed, k + 4) * 10,
      recycled |-> FALSE]

\* AmbientStep that redraws the velocity of a recycled particle from the height
\* it had risen to instead of the height it restarts from
AmbientStep_StaleVelocity(q, c, delta, elapsedTime, seed, k) ==
  LET y1 == q.y + Mul(q.velocity, delta)
      x1 == q.x + Mul(Sin(elapsedTime + q.lifetime), c.driftIntensity)
      z1 == q.z + Mul(Cos(elapsedTime + q.lifetime), c.driftIntensity)
      y2 == RecycleY(Pow(Random(seed, k + 1), c.bottomDensity), c.height)
  IN IF TooHigh(y1, c.height)
     THEN [x |-> Mul(Random(seed, k) - HALF, c.area),
           y |-> y2,
           z |-> Mul(Random(seed, k + 2) - HALF, c.area),
           velocity |-> VelocityAt(y1, Random(seed, k + 3), c),
           lifetime |-> q.lifetime,
           recycled |-> TRUE]
     ELSE [q EXCEPT !.x = x1, !.y = y1, !.z = z1, !.recycled = FALSE]

\* AmbientStep that holds a particle at the ceiling instead of recycling it
AmbientStep_Pinned(q, c, delta, elapsedTime, seed, k) ==
  LET y1 == q.y + Mul(q.velocity, delta)
      x1 == q.x + Mul(Sin(elapsedTime + q.lifetime), c.driftIntensity)
      z1 == q.z + Mul(Cos(elapsedTime + q.lifetime), c.driftIntensity)
  IN [q EXCEPT !.x = IF TooHigh(y1, c.height) THEN q.x ELSE x1,
               !.y = IF TooHigh(y1, c.height) THEN c.height ELSE y1,
               !.z = IF TooHigh(y1, c.height) THEN q.z ELSE z1,
               !.recycled = FALSE]

\* the loop body of the frame callback for one particle; k is the number of
\* Math.random() draws made so far in this frame
AmbientStep(q, c, delta, elapsedTime, seed, k) ==
  LET y1 == q.y + Mul(q.velocity, delta)
      x1 == q.x + Mul(Sin(elapsedTime + q.lifetime), c.driftIntensity)
      z1 == q.z + Mul(Cos(elapsedTime + q.lifetime), c.driftIntensity)
      y2 == RecycleY(Pow(Random(seed, k + 1), c.bottomDensity), c.height)
  IN IF TooHigh(y1, c.height)
     THEN [x |-> Mul(Random(seed, k) - HALF, c.area),
           y |-> y2,
           z |-> Mul(Random(seed, k + 2) - HALF, c.area),
           velocity |-> VelocityAt(y2, Random(seed, k + 3), c),
           lifetime |-> q.lifetime,
           recycled |-> TRUE]
     ELSE [q EXCEPT !.x = x1, !.y = y1, !.z = z1, !.recycled = FALSE]

RECURSIVE AmbientLoop(_, _, _, _, _, _, _)
AmbientLoop(ps, c, delta, elapsedTime, seed, i, k) ==
  IF i > Len(ps) THEN ps
  ELSE LET q == AmbientStep(ps[i], c, delta, elapsedTime, seed, k)
       IN AmbientLoop([ps EXCEPT ![i] = q], c, delta, elapsedTime, seed, i + 1,
                      IF q.recycled THEN k + 4 ELSE k)

\* the frame callback of RisingParticles, delta seconds after the previous frame
AmbientFrame ==
  \E delta \in cfg.deltas, seed \in 0..MaxSeed :
    /\ amb # NULL
    /\ amb.frames < MaxAmbFrames
    /\ amb' = [particles |-> AmbientLoop(amb.particles, cfg, delta,
                                         amb.elapsedTime + delta, seed, 1, 0),
               elapsedTime |-> amb.elapsedTime + delta,
               frames |-> amb.frames + 1]
    /\ UNCHANGED <<cfg, texture, bullLoads, bullImageData, particleData, basicData,
                   pointsRef, crashed, ctl, weights, mouseWorldPosition, time,
                   frameWrote, frameNaN, others>>

\* props within the ranges of useParticleControls; frame deltas from 0 to 20 s
AmbientConfigs ==
  [count : {1, 2}, area : {20 * FP}, height : {5 * FP, 15 * FP},
   speed : {HALF, 2 * FP}, bottomDensity : {1, 3},
   velocityGradient : {0, (7 * FP) \div 10},
   driftIntensity : {FDiv(FP, 100)},
   deltas : {{0, FDiv(16 * FP, 1000), FP, 20 * FP}}]

InitAmbient ==
  /\ cfg \in AmbientConfigs
  /\ Boot
  /\ \E seed \in 0..MaxSeed :
       amb = [particles |-> [i \in 1..cfg.count |-> AmbientParticle(cfg, seed, i - 1)],
              elapsedTime |-> 0, frames |-> 0]
  /\ Idle

NextAmbient == AmbientFrame

SpecAmbient == InitAmbient /\ [][NextAmbient]_vars

\* The frame callback in an unending run of frames.  The clock reading enters the
\* update through Math.sin and Math.cos alone, so it is kept modulo 2 pi; the
\* frame count is not kept.
AmbientTick ==
  \E delta \in cfg.deltas, seed \in 0..MaxSeed :
    /\ amb # NULL
    /\ amb' = [particles |-> AmbientLoop(amb.particles, cfg, delta,
                                         (amb.elapsedTime + delta) % TwoPi, seed, 1, 0),
               elapsedTime |-> (amb.elapsedTime + delta) % TwoPi,
               frames |-> amb.frames]
    /\ UNCHANGED <<cfg, texture, bullLoads, bullImageData, particleData, basicData,
                   pointsRef, crashed, ctl, weights, mouseWorldPosition, time,
                   frameWrote, frameNaN, others>>

\* unending frames a whole turn of the clock's phase apart (6.283 s)
RiseConfigs ==
  [count : {1, 2}, area : {20 * FP}, height : {5 * FP},
   speed : {HALF, 2 * FP}, bottomDensity : {3},
   velocityGradient : {(7 * FP) \div 10},
   driftIntensity : {FDiv(FP, 100)},
   deltas : {{TwoPi}}]

InitRise ==
  /\ cfg \in RiseConfigs
  /\ Boot
  /\ \E seed \in 0..MaxSeed :
       amb = [particles |-> [i \in 1..cfg.count |-> AmbientParticle(cfg, seed, i - 1)],
              elapsedTime |-> 0, frames |-> 0]
  /\ Idle

NextRise == AmbientTick

\* the render loop calls the frame callback again and again
SpecRise == InitRise /\ [][NextRise]_vars /\ WF_vars(AmbientTick)

-----------------------------------------------------------------------------
(* Properties of the field builder, under SpecBuild *)

\* the number of logo pixels above the alpha threshold
VisibleCount == Len(ScanVisible(cfg.img, cfg.alphaThreshold, 0))

FieldArrays(pd) ==
  {pd.positions, pd.colors, pd.originalPositions, pd.spherePositions, pd.bullPositions}

\* C1: whenever a field exists (after the build and after every frame), its
\* positions, colors, logo base, sphere base and bull base arrays each have
\* length exactly 3 * particleCount, whatever the image and the density mode.
C1_ArrayLengths ==
  particleData # NULL =>
    \A arr \in FieldArrays(particleData) : Len(arr) = 3 * cfg.particleCount

\* C1 witness: a field built from fewer visible pixels than particles, after a frame
C1_Witness ==
  /\ particleData # NULL /\ frameWrote
  /\ 0 < VisibleCount /\ VisibleCount < cfg.particleCount
  /\ \A arr \in FieldArrays(particleData) : Len(arr) = 3 * cfg.particleCount

\* C2 as claimed: in uniform mode every build that returns has populated exactly
\* particleCount particles, for every image.
C2_Claimed ==
  (particleData # NULL /\ cfg.densityMode = "uniform") =>
     particleData.particleIndex = cfg.particleCount

\* C2 on the images with at least one pixel above the alpha threshold: there the
\* stride scan and the fill pass do leave exactly particleCount particles
\* populated when the build returns (in AdvancedLogoParticles and in
\* LogoParticles).
C2_UniformFills ==
  (cfg.densityMode = "uniform" /\ VisibleCount > 0) =>
     /\ particleData # NULL => particleData.particleIndex = cfg.particleCount
     /\ basicData # NULL => basicData.particleIndex = cfg.particleCount

\* a sparse image whose stride scan finds nothing, filled by the fallback pass
C2_SparseFilled ==
  /\ particleData # NULL /\ cfg.densityMode = "uniform"
  /\ cfg.img = Image(2, 2, <<0, 255, 0, 0>>) /\ cfg.alphaThreshold = 50
  /\ cfg.particleCount = 2
  /\ particleData.particleIndex = 2
  /\ particleData.src = <<1, 1>>

ColorAt(pd, n) == [r |-> pd.colors[3 * n + 1], g |-> pd.colors[3 * n + 2], b |-> pd.colors[3 * n + 3]]

\* C9 as claimed: the opaque 2 x 2 image in uniform mode with 4 particles gives
\* the 4 pixel colors, each once, at the 4 quadrant centers (+-spread/4, +-spread/4).
C9_Claimed ==
  (/\ particleData # NULL /\ cfg.img = Opaque2x2 /\ cfg.alphaThreshold = 0
   /\ cfg.particleCount = 4 /\ cfg.densityMode = "uniform" /\ ~cfg.forceFallbackColor)
  =>
  /\ particleData.particleIndex = 4
  /\ \A k \in 0..3 :
       Cardinality({n \in 0..3 : ColorAt(particleData, n) = PixelColor(PixelRGB(k))}) = 1
  /\ {<<Vec(particleData.originalPositions, n).x, Vec(particleData.originalPositions, n).y>> :
        n \in 0..3}
       = {<<sx * FDiv(cfg.spread, 4), sy * FDiv(cfg.spread, 4)>> : sx, sy \in {-1, 1}}

\* particle i's bull base position is that of bull pixel (i mod bullPixelCount)
BullAligned(pd, bd) ==
  \A i \in 0..(pd.particleIndex - 1) :
    LET bullPixel == bd.pixels[(i % Len(bd.pixels)) + 1]
    IN /\ Vec(pd.bullPositions, i).x = MapX(bullPixel.x, bd.canvasWidth, cfg.spread)
       /\ Vec(pd.bullPositions, i).y = MapY(bullPixel.y, bd.canvasHeight, cfg.spread)

\* C13 as claimed: for every bull image with fewer visible pixels than
\* particleCount, a bull image with no visible pixel included, the build
\* completes without error and every populated particle takes its bull base
\* position from bull pixel (i mod bullPixelCount).
C13_Claimed ==
  (bullImageData # NULL /\ Len(bullImageData.pixels) < cfg.particleCount) =>
     /\ ~crashed
     /\ particleData # NULL
     /\ BullAligned(particleData, bullImageData)

\* C13 on the bull images with at least one visible pixel: there the build does
\* complete and the bull array is aligned round-robin.
C13_RoundRobin ==
  (bullImageData # NULL /\ Len(bullImageData.pixels) > 0) =>
     /\ ~crashed
     /\ particleData # NULL
     /\ BullAligned(particleData, bullImageData)

\* the raster indices of the logo pixels whose alpha is above the threshold
VisibleIndices ==
  {k \in 0..(Len(cfg.img.data) - 1) : cfg.img.data[k + 1].a > cfg.alphaThreshold}

\* the sample that pixel k of the logo gives
SampleOf(k) ==
  LET d == cfg.img.data[k + 1]
  IN [x |-> k % cfg.img.width, y |-> k \div cfg.img.width,
      r |-> d.r, g |-> d.g, b |-> d.b, a |-> d.a]

\* C14: the (shuffled) visible-pixel list holds exactly the pixels whose alpha is
\* strictly above alphaThreshold, each once, with x = index mod width and
\* y = floor(index / width): the shuffle permutes the scanned list and changes
\* no sample.  The bull loader's list obeys the same rule.
C14_VisibleList ==
  /\ particleData # NULL =>
       LET vis == particleData.vis
       IN /\ Len(vis) = Cardinality(VisibleIndices)
          /\ \A k \in VisibleIndices :
               Cardinality({i \in DOMAIN vis : vis[i] = SampleOf(k)}) = 1
          /\ \A s \in {vis[i] : i \in DOMAIN vis} :
               Cardinality({i \in DOMAIN vis : vis[i] = s})
                 = Cardinality({i \in DOMAIN ScanVisible(cfg.img, cfg.alphaThreshold, 0) :
                                  ScanVisible(cfg.img, cfg.alphaThreshold, 0)[i] = s})
  /\ bullImageData # NULL =>
       LET px == bullImageData.pixels
           data == cfg.bullImg.data
           want == {k \in 0..(Len(data) - 1) : data[k + 1].a > cfg.alphaThreshold}
       IN /\ Len(px) = Cardinality(want)
          /\ \A k \in want :
               Cardinality({i \in DOMAIN px :
                              px[i] = [x |-> k % cfg.bullImg.width,
                                       y |-> k \div cfg.bullImg.width]}) = 1

\* C14 witness: a pixel with alpha equal to the threshold is left out, and the
\* shuffle has moved the three others out of raster order
C14_Witness ==
  /\ particleData # NULL
  /\ cfg.img = Image(2, 2, <<50, 255, 255, 255>>) /\ cfg.alphaThreshold = 50
  /\ Len(particleData.vis) = 3
  /\ particleData.vis # ScanVisible(cfg.img, cfg.alphaThreshold, 0)
  /\ \A i \in 1..3 : particleData.vis[i].a = 255

\* the particles the build has populated take the fallback color when it is
\* forced, else the RGB / 255 of their source pixel
PopulatedColors(pd) ==
  \A n \in 0..(pd.particleIndex - 1) :
    ColorAt(pd, n) = IF cfg.forceFallbackColor THEN fallbackColor
                     ELSE PixelColor(cfg.img.data[pd.src[n + 1] + 1])

\* C15 as claimed: with forceFallbackColor set every one of the particleCount
\* particles of the color array has the fallback color, for every image and both
\* density modes; with it unset each populated particle has its source pixel's
\* RGB / 255.
C15_Claimed ==
  particleData # NULL =>
    /\ PopulatedColors(particleData)
    /\ cfg.forceFallbackColor =>
         \A n \in 0..(cfg.particleCount - 1) : ColorAt(particleData, n) = fallbackColor

\* C15 on the populated particles alone holds for every image and both modes.
C15_Populated == particleData # NULL => PopulatedColors(particleData)

\* the field was built by placing several particles on each pixel
Multiplied ==
  /\ particleData # NULL /\ cfg.densityMode = "adaptive"
  /\ 0 < Len(particleData.vis) /\ Len(particleData.vis) < cfg.particleCount

\* the number of particles taken from the pixel at place j of the shuffled list
ParticlesOn(pd, j) ==
  Cardinality({i \in 1..Len(pd.src) : pd.src[i] = pd.vis[j + 1].y * cfg.img.width
                                                  + pd.vis[j + 1].x})

\* C19 as claimed: in adaptive mode with fewer visible pixels than
\* particleCount, exactly particleCount particles are populated and every
\* visible pixel is the source of at least one particle.
C19_Claimed ==
  Multiplied =>
    /\ particleData.particleIndex = cfg.particleCount
    /\ \A j \in 0..(Len(particleData.vis) - 1) : ParticlesOn(particleData, j) >= 1

\* C19 without the coverage: exactly particleCount particles are populated, and
\* the pixels of the shuffled list receive ceil(particleCount / totalPixels)
\* particles each, in list order, until particleCount is reached; the pixels
\* after that receive none.
C19_FrontLoaded ==
  Multiplied =>
    LET pd == particleData
        totalPixels == Len(pd.vis)
        particlesPerPixel == (cfg.particleCount + totalPixels - 1) \div totalPixels
    IN /\ pd.particleIndex = cfg.particleCount
       /\ \A j \in 0..(totalPixels - 1) :
            ParticlesOn(pd, j) =
              IF (j + 1) * particlesPerPixel <= cfg.particleCount THEN particlesPerPixel
              ELSE IF j * particlesPerPixel < cfg.particleCount
                   THEN cfg.particleCount - j * particlesPerPixel
                   ELSE 0

-----------------------------------------------------------------------------
(* Properties of the adaptive sampling, under SpecAdaptive *)

\* the field was built by the evenly spaced selection
Strided ==
  /\ particleData # NULL /\ cfg.densityMode = "adaptive"
  /\ cfg.particleCount < Len(particleData.vis)

\* the raster index of a sample
RasterIndex(pixel) == pixel.y * cfg.img.width + pixel.x

\* the place in the shuffled list of the pixel particle i was taken from
ListIndex(pd, i) ==
  CHOOSE j \in 0..(Len(pd.vis) - 1) : RasterIndex(pd.vis[j + 1]) = pd.src[i + 1]

\* particle i lies exactly on its source pixel: no jitter was added, as the
\* sampling pass with fewer particles than pixels leaves it
OnPixel(pd, i) ==
  LET pixel == SampleOf(pd.src[i + 1])
  IN /\ Vec(pd.originalPositions, i).x = MapX(pixel.x, cfg.img.width, cfg.spread)
     /\ Vec(pd.originalPositions, i).y = MapY(pixel.y, cfg.img.height, cfg.spread)

\* C18 as claimed: in adaptive mode with more visible pixels than particleCount,
\* particle i is taken from shuffled pixel index floor(i * totalPixels /
\* particleCount), and exactly particleCount particles are populated by the
\* sampling pass.
C18_Claimed ==
  Strided =>
    /\ particleData.particleIndex = cfg.particleCount
    /\ \A i \in 0..(cfg.particleCount - 1) :
         /\ ListIndex(particleData, i)
              = (i * Len(particleData.vis)) \div cfg.particleCount
         /\ OnPixel(particleData, i)

\* C18 amended: particle i is taken from shuffled pixel index
\* floor(i * totalPixels / particleCount) or from the index just below it (the
\* index is the floor of i times the rounded quotient); every index is within
\* the list, the indices start at 0 and are strictly increasing, and exactly
\* particleCount particles are populated, each exactly on its pixel, so the
\* fill pass has not run.
C18_Stride ==
  Strided =>
    LET pd == particleData
        totalPixels == Len(pd.vis)
    IN /\ pd.particleIndex = cfg.particleCount
       /\ Len(pd.src) = cfg.particleCount
       /\ ListIndex(pd, 0) = 0
       /\ \A i \in 0..(cfg.particleCount - 1) :
            /\ ListIndex(pd, i) \in 0..(totalPixels - 1)
            /\ ListIndex(pd, i) \in {(i * totalPixels) \div cfg.particleCount - 1,
                                     (i * totalPixels) \div cfg.particleCount}
            /\ i > 0 => ListIndex(pd, i - 1) < ListIndex(pd, i)
            /\ OnPixel(pd, i)

\* C18 witness: 22 particles from 30 visible pixels; particle 11 is taken from
\* index 14, one below floor(11 * 30 / 22) = 15
C18_Witness ==
  /\ Strided
  /\ cfg.particleCount = 22 /\ Len(particleData.vis) = 30
  /\ particleData.particleIndex = 22
  /\ ListIndex(particleData, 11) = 14
  /\ ListIndex(particleData, 12) = 16

-----------------------------------------------------------------------------
(* Properties of the morph schedule, under SpecSched *)

\* the sequence progress of the current render
Progress ==
  sequenceProgress(cfg.morphSequenceProgress, ctl.morphPresets, ctl.internalSphereProgress)

\* C3: at every sequence progress in [0, 1] the three amounts of the schedule
\* sum to exactly 1.
C3_WeightsSumToOne ==
  weights # NULL =>
    weights.sphereAmount + weights.bullAmount + weights.logoAmount = FP

\* C3 witness: a render in the middle of the sphere-to-bull phase
C3_Witness ==
  /\ weights # NULL /\ Progress = FP \div 10
  /\ weights.sphereAmount > 0 /\ weights.bullAmount > 0
  /\ weights.sphereAmount + weights.bullAmount + weights.logoAmount = FP

\* C4: the schedule is sphere = 1 - p/0.4, bull = p/0.4, logo = 0 below 0.4;
\* (0, 1, 0) on [0.4, 0.6]; sphere = 0, bull = 1 - (p-0.6)/0.4, logo = (p-0.6)/0.4
\* above 0.6.  p = 0 is all sphere, p = 1 all logo, every amount lies in [0, 1],
\* and the linear pieces meet the plateau at 0.4 and at 0.6 (continuity).
C4_Schedule ==
  weights # NULL =>
    LET p == Progress
        w == weights
    IN /\ p \in 0..FP
       /\ p <= P04 => /\ w.bullAmount * P04 = p * FP
                      /\ w.sphereAmount = FP - w.bullAmount
                      /\ w.logoAmount = 0
       /\ (P04 <= p /\ p <= P06) =>
            /\ w.sphereAmount = 0 /\ w.bullAmount = FP /\ w.logoAmount = 0
       /\ p >= P06 => /\ w.logoAmount * P04 = (p - P06) * FP
                      /\ w.bullAmount = FP - w.logoAmount
                      /\ w.sphereAmount = 0
       /\ p = 0 => w = [sphereAmount |-> FP, bullAmount |-> 0, logoAmount |-> 0]
       /\ p = FP => w = [sphereAmount |-> 0, bullAmount |-> 0, logoAmount |-> FP]
       /\ \A a \in {w.sphereAmount, w.bullAmount, w.logoAmount} : 0 <= a /\ a <= FP

\* C4 witness: a render in the middle of the bull-to-logo phase
C4_Witness ==
  /\ weights # NULL /\ Progress = (8 * FP) \div 10
  /\ weights = [sphereAmount |-> 0, bullAmount |-> HALF, logoAmount |-> HALF]

-----------------------------------------------------------------------------
(* Properties of the frame update, under SpecFrame *)

\* the particles of the current field
Particles == 0..(cfg.particleCount - 1)

\* a field with its current positions wiped
Wiped(pd) == [pd EXCEPT !.positions = [i \in DOMAIN pd.positions |-> 0]]

\* C5: the positions a frame writes are a function of the clock reading, the
\* amounts, the controls, the pointer position and the base positions alone:
\* they are what the update computes from a field whose current positions are
\* wiped, and a second frame with the same inputs writes the same positions.
C5_FramePure ==
  [][ (frameWrote' /\ particleData # NULL) =>
        /\ particleData'.positions =
             PositionsOf(FrameLoop(Wiped(particleData), cfg, ctl', weights', time',
                                   mouseWorldPosition'),
                         Len(particleData.positions))
        /\ (frameWrote /\ time' = time /\ mouseWorldPosition' = mouseWorldPosition)
             => particleData'.positions = particleData.positions ]_vars

\* C5 witness: a frame has moved the particles away from where the build put them
C5_Witness ==
  /\ frameWrote /\ particleData # NULL /\ time > 0
  /\ particleData.positions # particleData.originalPositions

\* C6: with explosion, wave and pointer strength all zero and the amounts 100%
\* logo (or morphing disabled), a frame leaves every particle exactly at its
\* logo base position, wherever the pointer is.
C6_RestAtLogo ==
  (/\ frameWrote /\ particleData # NULL
   /\ ctl.explosionForce = 0 /\ ctl.waveAmplitude = 0 /\ ctl.mouseInteraction = 0
   /\ (~cfg.enableMorphing \/ weights.logoAmount = FP))
  => particleData.positions = particleData.originalPositions

\* C6 witness: such a frame with morphing enabled at p = 1, the pointer on a particle
C6_Witness ==
  /\ frameWrote /\ particleData # NULL /\ time > 0
  /\ ctl.explosionForce = 0 /\ ctl.waveAmplitude = 0 /\ ctl.mouseInteraction = 0
  /\ cfg.enableMorphing /\ weights.logoAmount = FP
  /\ \E n \in Particles :
       /\ Vec(particleData.originalPositions, n).x = mouseWorldPosition.x
       /\ Vec(particleData.originalPositions, n).y = mouseWorldPosition.y
  /\ particleData.positions = particleData.originalPositions

\* target + wave of particle n in the frame that produced the current state
Unforced(n) ==
  LET target == Explode(MorphTarget(cfg.enableMorphing, weights,
                                    Vec(particleData.spherePositions, n),
                                    Vec(particleData.bullPositions, n),
                                    Vec(particleData.originalPositions, n)),
                        ctl.explosionForce)
      wave == Wave(time, cfg.animationSpeed, n, ctl.waveAmplitude)
  IN [x |-> target.x + wave.x, y |-> target.y + wave.y]

\* the repulsion the frame applied to particle n: what it wrote minus target + wave
Applied(n) ==
  [x |-> Vec(particleData.positions, n).x - Unforced(n).x,
   y |-> Vec(particleData.positions, n).y - Unforced(n).y]

\* delta and |delta| of particle n
Delta(n) ==
  [x |-> Unforced(n).x - mouseWorldPosition.x, y |-> Unforced(n).y - mouseWorldPosition.y]
Dist(n) == ISqrt(Delta(n).x * Delta(n).x + Delta(n).y * Delta(n).y)

\* mouseStrength * (1 - |delta|/mouseRadius)^2 along delta/|delta|
ClaimedForce(n) ==
  LET falloff == FP - FDiv(Dist(n) * FP, ctl.mouseRadius)
      force == Mul(Mul(ctl.mouseInteraction, falloff), falloff)
  IN [x |-> Mul(FDiv(Delta(n).x * FP, Dist(n)), force),
      y |-> Mul(FDiv(Delta(n).y * FP, Dist(n)), force)]

\* C7: the repulsion on a particle is non-zero only when 0 < |delta| < mouseRadius
\* and is then mouseStrength * (1 - |delta|/mouseRadius)^2 along delta/|delta|; at
\* |delta| = 0 and at |delta| >= mouseRadius it is exactly zero; no frame divides
\* by zero and none raises.
C7_Repulsion ==
  /\ ~frameNaN
  /\ (frameWrote /\ particleData # NULL) =>
       /\ ~crashed
       /\ \A n \in Particles :
            /\ (Applied(n).x # 0 \/ Applied(n).y # 0) =>
                 (ctl.mouseInteraction > 0 /\ 0 < Dist(n) /\ Dist(n) < ctl.mouseRadius)
            /\ (0 < Dist(n) /\ Dist(n) < ctl.mouseRadius) => Applied(n) = ClaimedForce(n)
            /\ (Dist(n) = 0 \/ Dist(n) >= ctl.mouseRadius) => Applied(n) = [x |-> 0, y |-> 0]

\* C7 witness: with the repulsion on, the pointer exactly on one particle (zero
\* force), inside the radius of another (pushed) and out of reach of a third
C7_Witness ==
  /\ frameWrote /\ particleData # NULL /\ ctl.mouseInteraction > 0
  /\ \E n \in Particles : Dist(n) = 0 /\ Applied(n) = [x |-> 0, y |-> 0]
  /\ \E n \in Particles : 0 < Dist(n) /\ Dist(n) < ctl.mouseRadius /\ Applied(n).x # 0
  /\ \E n \in Particles : Dist(n) >= ctl.mouseRadius

\* C10: a frame writes positions only when the logo texture is there and the
\* bull image has been loaded and sampled; while either is pending there is no
\* particle data, nothing is rendered, and the frame callback returns at once.
C10_NoWriteBeforeSetup ==
  /\ frameWrote => (texture = "loaded" /\ bullImageData # NULL /\ particleData # NULL)
  /\ (texture # "loaded" \/ bullImageData = NULL) =>
       (particleData = NULL /\ ~pointsRef /\ ~frameWrote)

\* C10 witness: the frame callback has run while the bull image was still loading
C10_Witness ==
  /\ texture = "loaded" /\ bullLoads # {} /\ bullImageData = NULL
  /\ time > 0 /\ ~frameWrote /\ particleData = NULL

-----------------------------------------------------------------------------
(* Properties of the ambient field, under SpecAmbient *)

\* C8: after the initialisation and after every frame, whatever the frame
\* deltas (>= 0), every ambient particle has y <= height: a particle lifted
\* above height is recycled below it within the same update.
C8_BelowCeiling ==
  amb # NULL => \A i \in DOMAIN amb.particles : amb.particles[i].y <= cfg.height

\* C8 witness: a frame has just recycled a particle that had risen above height
C8_Witness ==
  /\ amb # NULL /\ amb.frames > 0
  /\ \E i \in DOMAIN amb.particles :
       amb.particles[i].recycled /\ amb.particles[i].y <= cfg.height

-----------------------------------------------------------------------------
(* Properties of the setup, under SpecSetup *)

\* setup has ended without a field: no load is in flight and there is no bull
\* data, or the logo cannot be drawn
SetupFailed ==
  /\ texture = "loaded" /\ bullLoads = {}
  /\ bullImageData = NULL \/ ~LogoReady(cfg)

\* C11: when setup fails (a failed bull load, no texture image, no 2d context)
\* nothing crashes: bull data is null after a failed load, the builder returns no
\* data, nothing is rendered and no frame writes; the state persists while the
\* props stay the same, and a load starts only on mount or when alphaThreshold or
\* debug changes.
C11_SetupFailure ==
  /\ [](SetupFailed =>
          /\ ~crashed /\ particleData = NULL /\ ~pointsRef /\ ~frameWrote
          /\ (basicData # NULL /\ ~LogoReady(cfg)) => Len(basicData.positions) = 0)
  /\ [][ /\ (SetupFailed /\ cfg' = cfg) => SetupFailed'
         /\ (~cfg.contextAvailable /\ bullLoads' # bullLoads /\ cfg' = cfg
               /\ texture = "loaded") => (bullImageData' = NULL /\ ~crashed')
         /\ (bullLoads' \ bullLoads # {}) =>
              \/ texture = "pending"
              \/ cfg'.alphaThreshold # cfg.alphaThreshold
              \/ cfg'.debug # cfg.debug ]_vars

\* C11 witness: the bull load has failed after a field had been shown, and a
\* frame callback has run since
C11_Witness ==
  /\ SetupFailed /\ LogoReady(cfg) /\ bullImageData = NULL
  /\ time > 0 /\ ~frameWrote /\ ~crashed /\ particleData = NULL /\ ~pointsRef

-----------------------------------------------------------------------------
(* Properties of the props' validation, under SpecEdge *)

\* C12 as claimed: with a non-positive particleCount, spread or mouseRadius no
\* field is built and no frame writes positions.
C12_Claimed ==
  (cfg.particleCount <= 0 \/ cfg.spread <= 0 \/ ctl.mouseRadius <= 0) =>
     /\ particleData = NULL \/ Len(particleData.positions) = 0
     /\ ~pointsRef /\ ~frameWrote

\* C17: every ambient particle's vertical velocity is strictly positive in every
\* reachable state, at construction and after every recycling, for speed > 0
\* and velocityGradient >= 0.
C17_VelocityPositive ==
  (amb # NULL /\ cfg.speed > 0 /\ cfg.velocityGradient >= 0) =>
     \A i \in DOMAIN amb.particles : amb.particles[i].velocity > 0

\* C17 witness: a particle has just been recycled under velocityGradient = 0 and
\* its redrawn velocity is positive
C17_Witness ==
  /\ amb # NULL /\ amb.frames > 0 /\ cfg.speed > 0 /\ cfg.velocityGradient = 0
  /\ \E i \in DOMAIN amb.particles :
       amb.particles[i].recycled /\ amb.particles[i].velocity > 0

-----------------------------------------------------------------------------
(* Properties of the frame update without morphing, under SpecStill *)

\* what a frame writes for particle n when its morph target is the logo base
\* position: the exploded base, plus wave, plus the pointer's push
FromLogoBase(n) ==
  LET target == Explode(Vec(particleData.originalPositions, n), ctl.explosionForce)
      wave == Wave(time, cfg.animationSpeed, n, ctl.waveAmplitude)
      force == MouseForce(target.x + wave.x - mouseWorldPosition.x,
                          target.y + wave.y - mouseWorldPosition.y,
                          ctl.mouseInteraction, ctl.mouseRadius)
  IN [x |-> target.x + wave.x + force.x,
      y |-> target.y + wave.y + force.y,
      z |-> target.z + wave.z]

\* C16: with morphing disabled the morph target of every particle in every
\* frame is its logo base position, whatever the sequence progress, the preset
\* and the blend amounts are: what the frame writes is built on the logo base.
C16_NoMorphTarget ==
  (frameWrote /\ particleData # NULL /\ ~cfg.enableMorphing) =>
     \A n \in Particles : Vec(particleData.positions, n) = FromLogoBase(n)

\* C16 witness: morphing is disabled while the amounts say 100% bull, and a frame
\* with explosion and wave has written positions built on the logo base
C16_Witness ==
  /\ frameWrote /\ particleData # NULL /\ ~cfg.enableMorphing
  /\ weights.bullAmount = FP /\ ctl.explosionForce > 0 /\ ctl.waveAmplitude > 0
  /\ time > 0
  /\ \A n \in Particles : Vec(particleData.positions, n) = FromLogoBase(n)

\* |t| of a target, and the target at |t| + explosionForce along its direction
Norm(t) == ISqrt(t.x * t.x + t.y * t.y + t.z * t.z)

Radial(t, explosionForce) ==
  LET d == Norm(t)
  IN [x |-> FDiv(t.x * (d + explosionForce), d),
      y |-> FDiv(t.y * (d + explosionForce), d),
      z |-> FDiv(t.z * (d + explosionForce), d)]

Origin == [x |-> 0, y |-> 0, z |-> 0]

\* a frame without morphing, wave and pointer force: what it wrote is the
\* exploded morph target, and the morph target is the logo base position
ExplosionOnly ==
  /\ frameWrote /\ particleData # NULL /\ ~cfg.enableMorphing
  /\ ctl.waveAmplitude = 0 /\ ctl.mouseInteraction = 0

\* C20: explosion displaces the morph target only along its own radial
\* direction: with explosionForce > 0 and d = |target| > 0 the target becomes
\* target * (d + explosionForce) / d; a target exactly at the origin is left
\* unchanged; with explosionForce = 0 the target is unchanged.
C20_Explosion ==
  ExplosionOnly =>
    \A n \in Particles :
      LET target == Vec(particleData.originalPositions, n)
          exploded == Vec(particleData.positions, n)
      IN /\ (ctl.explosionForce > 0 /\ Norm(target) > 0) =>
              exploded = Radial(target, ctl.explosionForce)
         /\ (ctl.explosionForce > 0 /\ target = Origin) => exploded = Origin
         /\ ctl.explosionForce = 0 => exploded = target

\* C20 witness: under a positive explosion force one particle at the origin has
\* stayed there and another has moved outwards along its direction
C20_Witness ==
  /\ ExplosionOnly /\ ctl.explosionForce > 0
  /\ \E n, k \in Particles :
       /\ Vec(particleData.originalPositions, n) = Origin
       /\ Vec(particleData.positions, n) = Origin
       /\ Norm(Vec(particleData.originalPositions, k)) > 0
       /\ Vec(particleData.positions, k) # Vec(particleData.originalPositions, k)
       /\ Vec(particleData.positions, k)
            = Radial(Vec(particleData.originalPositions, k), ctl.explosionForce)

-----------------------------------------------------------------------------
(* Properties of the recycling of the ambient field, under SpecAmbient *)

\* 0.3 + heightFraction * velocityGradient for a particle at height y
GradientAt(y) ==
  (3 * FP) \div 10 + Mul(FDiv((y + 5 * FP) * FP, cfg.height), cfg.velocityGradient)

\* C21: a recycled ambient particle keeps its slot (the particle count is
\* unchanged), its new y lies in the bottom band [-5, 0.3 * height - 5], its x
\* and z lie within [-area/2, area/2], and its velocity is drawn from the new
\* height fraction: between 0.5 * speed and 1.5 * speed times
\* (0.3 + heightFraction * velocityGradient).
C21_Recycled ==
  amb # NULL =>
    /\ Len(amb.particles) = cfg.count
    /\ \A i \in DOMAIN amb.particles :
         LET q == amb.particles[i]
         IN q.recycled =>
              /\ -5 * FP <= q.y /\ q.y <= FDiv(cfg.height * 3, 10) - 5 * FP
              /\ -(cfg.area \div 2) <= q.x /\ q.x <= cfg.area \div 2
              /\ -(cfg.area \div 2) <= q.z /\ q.z <= cfg.area \div 2
              /\ Mul(cfg.speed \div 2, GradientAt(q.y)) <= q.velocity
              /\ q.velocity <= Mul((3 * cfg.speed) \div 2, GradientAt(q.y))

\* C21 witness: under a positive velocity gradient one of two particles has
\* just been recycled into the bottom band
C21_Witness ==
  /\ amb # NULL /\ amb.frames > 0 /\ cfg.count = 2 /\ Len(amb.particles) = 2
  /\ cfg.velocityGradient > 0
  /\ \E i \in DOMAIN amb.particles :
       /\ amb.particles[i].recycled
       /\ amb.particles[i].y <= FDiv(cfg.height * 3, 10) - 5 * FP
       /\ amb.particles[i].velocity <= Mul((3 * cfg.speed) \div 2,
                                           GradientAt(amb.particles[i].y))

-----------------------------------------------------------------------------
(* Properties of the frame's writes, under SpecFrame *)

\* C22: a frame update of the logo field writes only the current-position
\* array: the logo, sphere and bull base position arrays and the color array
\* (and the cube array) are the same after every frame as before it.
C22_WritesPositionsOnly ==
  [][ (frameWrote' /\ particleData # NULL) =>
        /\ particleData'.originalPositions = particleData.originalPositions
        /\ particleData'.spherePositions = particleData.spherePositions
        /\ particleData'.bullPositions = particleData.bullPositions
        /\ particleData'.cubePositions = particleData.cubePositions
        /\ particleData'.colors = particleData.colors ]_vars

\* C22 witness: a frame under explosion with morphing enabled has written
\* positions away from every base array, and the colors are still the image's
C22_Witness ==
  /\ frameWrote /\ particleData # NULL /\ cfg.enableMorphing
  /\ ctl.explosionForce > 0
  /\ particleData.positions # particleData.originalPositions
  /\ particleData.positions # particleData.spherePositions
  /\ particleData.positions # particleData.bullPositions
  /\ \A n \in Particles :
       ColorAt(particleData, n) = PixelColor(cfg.img.data[particleData.src[n + 1] + 1])

-----------------------------------------------------------------------------
(* Properties of the choice of the sequence progress, under SpecProgress *)

\* the progress by strict precedence: the external value, then the preset's
\* fixed value, then the slider state
ByPrecedence ==
  IF cfg.morphSequenceProgress # NULL THEN cfg.morphSequenceProgress.value
  ELSE CASE ctl.morphPresets = "logo" -> FP
         [] ctl.morphPresets = "bull" -> HALF
         [] ctl.morphPresets = "sphere" -> 0
         [] OTHER -> ctl.internalSphereProgress

\* C23: the effective sequence progress is chosen by strict precedence: an
\* external morphSequenceProgress (the value 0 included) always wins; otherwise
\* a preset 'logo', 'bull' or 'sphere' fixes it at 1, 0.5 or 0 whatever the
\* slider state; only otherwise does the slider state determine it.  The
\* amounts of every render are the schedule's amounts at that progress.
C23_Precedence ==
  weights # NULL =>
    /\ weights = MorphAmounts(ByPrecedence)
    /\ cfg.morphSequenceProgress # NULL =>
         weights = MorphAmounts(cfg.morphSequenceProgress.value)
    /\ (cfg.morphSequenceProgress = NULL /\ ctl.morphPresets = "logo") =>
         weights.logoAmount = FP
    /\ (cfg.morphSequenceProgress = NULL /\ ctl.morphPresets = "bull") =>
         weights.bullAmount = FP
    /\ (cfg.morphSequenceProgress = NULL /\ ctl.morphPresets = "sphere") =>
         weights.sphereAmount = FP

\* C23 witness: an external progress of 0 with the preset at 'logo' and the
\* slider state at 1: the render is all sphere
C23_Witness ==
  /\ weights # NULL
  /\ cfg.morphSequenceProgress = [value |-> 0]
  /\ ctl.morphPresets = "logo" /\ ctl.internalSphereProgress = FP
  /\ weights = [sphereAmount |-> FP, bullAmount |-> 0, logoAmount |-> 0]

\* the amounts of the pure shape a preset stands for
PureShape(preset) ==
  CASE preset = "bull" -> [sphereAmount |-> 0, bullAmount |-> FP, logoAmount |-> 0]
    [] preset = "logo" -> [sphereAmount |-> 0, bullAmount |-> 0, logoAmount |-> FP]
    [] OTHER -> [sphereAmount |-> FP, bullAmount |-> 0, logoAmount |-> 0]

\* C24: with no external progress, selecting a morph preset lands on a pure
\* shape: the render after selecting 'sphere' or 'reset' has the amounts
\* (1, 0, 0), after 'bull' (0, 1, 0), after 'logo' (0, 0, 1), whatever the slider
\* state was before.
C24_PresetPure ==
  [][ (cfg.morphSequenceProgress = NULL /\ ctl'.morphPresets # ctl.morphPresets) =>
        weights' = PureShape(ctl'.morphPresets) ]_vars

\* C24 witness: 'reset' has been selected and the render is all sphere
C24_Witness ==
  /\ cfg.morphSequenceProgress = NULL /\ weights # NULL
  /\ ctl.morphPresets = "reset" /\ ctl.internalSphereProgress = 0
  /\ weights = PureShape("reset")

-----------------------------------------------------------------------------
(* Properties of overlapping bull loads, under SpecReload *)

\* the bull pixels that are visible at alphaThreshold a
BullVisibleAt(a) ==
  {[x |-> k % cfg.bullImg.width, y |-> k \div cfg.bullImg.width] :
     k \in {j \in 0..(Len(cfg.bullImg.data) - 1) : cfg.bullImg.data[j + 1].a > a}}

\* the pixels of the stored bull list
StoredBullPixels == {bullImageData.pixels[i] : i \in DOMAIN bullImageData.pixels}

\* every load has completed and the last one to complete has stored a list
LoadsSettled == texture = "loaded" /\ bullLoads = {} /\ bullImageData # NULL

\* C25 as claimed: once all overlapping loads have completed, the stored bull
\* pixel list is the one sampled with the most recent alphaThreshold, in any
\* completion order.
C25_Claimed ==
  LoadsSettled => StoredBullPixels = BullVisibleAt(cfg.alphaThreshold)

\* what the loader does guarantee: the stored list was sampled with one of the
\* thresholds the component has had
C25_SomeThreshold ==
  bullImageData # NULL =>
    \E a \in cfg.thresholds \cup {cfg.alphaThreshold} : StoredBullPixels = BullVisibleAt(a)

-----------------------------------------------------------------------------
(* Properties of the ambient field in an unending run of frames, under SpecRise *)

-----------------------------------------------------------------------------
(* useLoadingScreen: the hook that hides the page's loading screen *)

\* the state of the particle scene, which the loading screen never touches
scene == <<texture, bullLoads, bullImageData, particleData, basicData, pointsRef,
           crashed, ctl, weights, mouseWorldPosition, time, frameWrote, frameNaN, amb>>

\* how many times the model lets signalExperienceReady be called
MaxSignals == 6

\* hideLoadingScreen without the hasHiddenRef guard (the module's global function)
hideLoadingScreen_Unguarded(ls, c) ==
  IF ls.attached /\ c.rootInDom
    THEN [ls EXCEPT !.hasHiddenRef = TRUE, !.loaded = TRUE, !.hidden = TRUE,
                    !.removals = @ + 1, !.hides = @ + 1, !.scheduled = @ + 1]
    ELSE [ls EXCEPT !.hasHiddenRef = TRUE]

\* the hook's hideLoadingScreen: once per instance, and only when both elements
\* are found; the removal timer is set in the same step
hideLoadingScreen(ls, c) ==
  IF ls.hasHiddenRef
    THEN ls
    ELSE IF ls.attached /\ c.rootInDom
      THEN [ls EXCEPT !.hasHiddenRef = TRUE, !.loaded = TRUE, !.hidden = TRUE,
                      !.removals = @ + 1, !.hides = @ + 1, !.scheduled = @ + 1]
      ELSE [ls EXCEPT !.hasHiddenRef = TRUE]

\* the page as the hook finds it: with or without the two elements
ScreenConfigs == [screenInDom : BOOLEAN, rootInDom : BOOLEAN]

InitScreen ==
  /\ cfg \in ScreenConfigs
  /\ Boot /\ amb = NULL
  /\ loadingScreen = [hasHiddenRef |-> FALSE,
                      pending      |-> 0,      \* 300 ms timers not yet fired
                      removals     |-> 0,      \* 500 ms timers not yet fired
                      loaded       |-> FALSE,  \* root has class "loaded"
                      hidden       |-> FALSE,  \* the screen has class "hidden"
                      attached     |-> cfg.screenInDom,
                      calls        |-> 0,
                      hides        |-> 0,      \* hide steps performed
                      scheduled    |-> 0,      \* removals scheduled
                      removed      |-> 0]      \* loadingScreen.remove() calls
  /\ jsScan = NULL
  /\ jsColors = NULL

\* signalExperienceReady(): one more 300 ms timer
SignalExperienceReady ==
  /\ loadingScreen # NULL
  /\ loadingScreen.calls < MaxSignals
  /\ loadingScreen' = [loadingScreen EXCEPT !.pending = @ + 1, !.calls = @ + 1]
  /\ UNCHANGED <<cfg, scene, jsScan, jsColors>>

\* one of the 300 ms timers fires and runs hideLoadingScreen
HideTimerFires ==
  /\ loadingScreen # NULL
  /\ loadingScreen.pending > 0
  /\ loadingScreen' =
       hideLoadingScreen([loadingScreen EXCEPT !.pending = @ - 1], cfg)
  /\ UNCHANGED <<cfg, scene, jsScan, jsColors>>

\* a 500 ms timer fires and runs loadingScreen.remove()
RemovalTimerFires ==
  /\ loadingScreen # NULL
  /\ loadingScreen.removals > 0
  /\ loadingScreen' = [loadingScreen EXCEPT !.removals = @ - 1,
                                            !.attached = FALSE,
                                            !.removed = @ + 1]
  /\ UNCHANGED <<cfg, scene, jsScan, jsColors>>

NextScreen == SignalExperienceReady \/ HideTimerFires \/ RemovalTimerFires

SpecScreen == InitScreen /\ [][NextScreen]_vars

\* C27: however many times signalExperienceReady is called and in whatever
\* order the 300 ms timers fire, one useLoadingScreen instance hides the screen
\* (root "loaded", screen "hidden") at most once, schedules its removal at most
\* once, and removes it only after the hide step.
C27_HiddenOnce ==
  /\ [](/\ loadingScreen.hides <= 1
        /\ loadingScreen.scheduled <= 1
        /\ loadingScreen.scheduled = loadingScreen.hides
        /\ loadingScreen.hides = 1 <=> (loadingScreen.loaded /\ loadingScreen.hidden))
  /\ [][loadingScreen.removed' # loadingScreen.removed
          => /\ loadingScreen.hides = 1
             /\ loadingScreen.hidden /\ loadingScreen.loaded
             /\ loadingScreen.removed = 0]_vars

\* three calls, every timer fired, the screen hidden and removed
C27_Witness ==
  /\ loadingScreen.calls >= 3
  /\ loadingScreen.pending = 0
  /\ loadingScreen.removals = 0
  /\ loadingScreen.hides = 1
  /\ loadingScreen.removed = 1
  /\ ~loadingScreen.attached

-----------------------------------------------------------------------------
(* LogoParticles.jsx: the pixel sampling loop of the JavaScript revision *)

\* "const samplingRate = Math.floor(data.length / 4 / particleCount)"
samplingRate(img, particleCount) ==
  MathFloor(DoubleQuotient(Len(img.data), particleCount))

\* 2 x 2 images of every pattern of faint (alpha 50) and opaque pixels
ScanConfigs ==
  [img : {Image(2, 2, a) : a \in [1..4 -> {50, 255}]},
   particleCount : 1..MaxParticles]

\* the loop before its first test, samplingRate computed; pixel is i / 4, src
\* the pixels sampled so far
InitJsScan ==
  /\ cfg \in ScanConfigs
  /\ Boot /\ amb = NULL
  /\ loadingScreen = NULL
  /\ jsScan = [samplingRate |-> samplingRate(cfg.img, cfg.particleCount),
               pixel |-> 0, particleIndex |-> 0, src |-> <<>>, done |-> FALSE]
  /\ jsColors = NULL

\* one test of the loop condition and, where it holds, one pass of the body
\* followed by "i += samplingRate * 4"
JsScanStep ==
  /\ jsScan # NULL
  /\ ~jsScan.done
  /\ IF jsScan.pixel < Len(cfg.img.data) /\ jsScan.particleIndex < cfg.particleCount
       THEN LET a == cfg.img.data[jsScan.pixel + 1].a
                next == jsScan.pixel + jsScan.samplingRate
            IN jsScan' =
                 IF a > 50
                   THEN [jsScan EXCEPT !.pixel = next,
                                       !.particleIndex = @ + 1,
                                       !.src = Append(@, jsScan.pixel)]
                   ELSE [jsScan EXCEPT !.pixel = next]
       ELSE jsScan' = [jsScan EXCEPT !.done = TRUE]
  /\ UNCHANGED <<cfg, scene, loadingScreen, jsColors>>

NextJsScan == JsScanStep

\* the loop runs on the JavaScript thread until its condition fails
SpecJsScan == InitJsScan /\ [][NextJsScan]_vars /\ WF_vars(JsScanStep)

\* C28: the sampling loop of LogoParticles.jsx terminates for every image and
\* every particleCount >= 1, also when particleCount exceeds the pixel count
\* and floor(totalPixels / particleCount) is 0.
C28_Claimed == <>(jsScan.done)

-----------------------------------------------------------------------------
(* AdvancedLogoParticles.jsx: the color array of the JavaScript revision *)

\* how many frames the model runs
MaxColorFrames == 3

\* the values of the colorIntensity control that the model tries (0 to 3)
ColorIntensities == {0, HALF, FP, 2 * FP, 3 * FP}

RECURSIVE JsSample(_, _, _, _)
\* the sampling loop with samplingRate = max(1, floor(pixels / particleCount)):
\* the r, g, b (over 255) of the pixels with alpha above 50 from pixel on, for
\* at most left particles
JsSample(img, rate, pixel, left) ==
  IF pixel >= Len(img.data) \/ left = 0 THEN <<>>
  ELSE LET d == img.data[pixel + 1]
       IN IF d.a > 50
          THEN <<FDiv(d.r * FP, 255), FDiv(d.g * FP, 255), FDiv(d.b * FP, 255)>>
                 \o JsSample(img, rate, pixel + rate, left - 1)
          ELSE JsSample(img, rate, pixel + rate, left)

\* "new Float32Array(particleCount * 3)" filled by the sampling loop; the
\* particles the loop did not reach stay 0
JsColorArray(img, particleCount) ==
  LET total == Len(img.data)
      rate == IF total \div particleCount >= 1 THEN total \div particleCount ELSE 1
      filled == JsSample(img, rate, 0, particleCount)
  IN filled \o [j \in 1..(3 * particleCount - Len(filled)) |-> 0]

\* the frame's color pass: each element of the color attribute's array is read,
\* multiplied by colorIntensity and written back to the same array
ColorPass(jc) ==
  [jc EXCEPT !.colors = [j \in 1..Len(jc.colors) |->
                           Mul(jc.colors[j], jc.colorIntensity)]]

ColorConfigs ==
  [img : {Opaque2x2, Image(2, 2, <<50, 255, 255, 50>>), Image(3, 1, <<255, 50, 255>>)},
   particleCount : {1, 2, MaxParticles},
   colorIntensity : ColorIntensities]

\* after useMemo: the color array holds the image colors; original keeps a copy
\* of them for the properties
InitJsColors ==
  /\ cfg \in ColorConfigs
  /\ Boot /\ amb = NULL
  /\ loadingScreen = NULL
  /\ jsScan = NULL
  /\ jsColors = [original       |-> JsColorArray(cfg.img, cfg.particleCount),
                 colors         |-> JsColorArray(cfg.img, cfg.particleCount),
                 colorIntensity |-> cfg.colorIntensity,
                 applied        |-> <<>>,   \* the colorIntensity the last frame used
                 mounted        |-> FALSE,  \* pointsRef.current is set
                 frames         |-> 0]

\* <points ref={pointsRef}> is committed
JsMount ==
  /\ jsColors # NULL
  /\ ~jsColors.mounted
  /\ jsColors' = [jsColors EXCEPT !.mounted = TRUE]
  /\ UNCHANGED <<cfg, scene, loadingScreen, jsScan>>

\* the user moves the colorIntensity control
SetColorIntensity ==
  /\ jsColors # NULL
  /\ \E k \in ColorIntensities \ {jsColors.colorIntensity} :
       jsColors' = [jsColors EXCEPT !.colorIntensity = k]
  /\ UNCHANGED <<cfg, scene, loadingScreen, jsScan>>

\* one call of the useFrame callback
JsFrame ==
  /\ jsColors # NULL
  /\ jsColors.frames < MaxColorFrames
  /\ jsColors' =
       IF ~jsColors.mounted
         THEN [jsColors EXCEPT !.frames = @ + 1]
         ELSE [ColorPass(jsColors) EXCEPT !.frames = @ + 1,
                                          !.applied = <<jsColors.colorIntensity>>]
  /\ UNCHANGED <<cfg, scene, loadingScreen, jsScan>>

NextJsColors == JsMount \/ SetColorIntensity \/ JsFrame

SpecJsColors == InitJsColors /\ [][NextJsColors]_vars

\* C29: in AdvancedLogoParticles.jsx, after any number of frames the color of
\* every particle is its original image color multiplied by colorIntensity (the
\* value the last frame used): the update does not accumulate over frames.
C29_Claimed ==
  (jsColors.applied # <<>>) =>
    \A j \in 1..Len(jsColors.colors) :
      jsColors.colors[j] = Mul(jsColors.original[j], jsColors.applied[1])

-----------------------------------------------------------------------------
(* The adaptive pass of the basic LogoParticles component, under SpecBuild *)

\* the raster-ordered visible-pixel list of LogoParticles
RasterList == ScanVisible(cfg.img, cfg.alphaThreshold, 0)

\* the places in RasterList of the pixels the built field was taken from
SelectedPlaces ==
  {j \in 0..(Len(RasterList) - 1) :
     \E i \in 1..Len(basicData.src) : basicData.src[i] = RasterIndex(RasterList[j + 1])}

\* C30: in LogoParticles adaptive mode with at least particleCount visible
\* pixels and step = max(1, floor(visiblePixels.length / particleCount)), every
\* place of the visible-pixel list lies within step - 1 places of a selected
\* one: no tail of the list is left unsampled.
C30_Claimed ==
  (/\ basicData # NULL /\ LogoReady(cfg)
   /\ cfg.densityMode = "adaptive"
   /\ Len(RasterList) >= cfg.particleCount)
  => \A j \in 0..(Len(RasterList) - 1) :
       \E s \in SelectedPlaces :
         LET step == StepOf(Len(RasterList), cfg.particleCount)
         IN s - j <= step - 1 /\ j - s <= step - 1

====
